---------------------------- MODULE Spec2Model ----------------------------
(***************************************************************************)
(* A model of khelper's interactive engine:                                *)
(*   - FuzzyList  (src/pkg/ui/fuzzylist.go)   variable fl, spec SpecFL     *)
(*   - LogViewer  (src/pkg/ui/logviewer.go)   variable lv, spec SpecLV     *)
(*   - the wizard Model (src/unnamed/part_000) variables m, pending,       *)
(*     streams, quit, spec Spec                                            *)
(* Strings are TLA+ strings; where the code looks inside a string (fuzzy   *)
(* matching, substring search) the string's characters come from the table *)
(* Chars.  Indices are 0-based as in the Go code; sequences are 1-based.   *)
(***************************************************************************)
EXTENDS Integers, Sequences, FiniteSets, Bags, TLC

VARIABLES fl, lv, appended, m, lastMsg, pending, issued, streams, viewerOf, quit,
          recent, goingBack

vars == <<fl, lv, appended, m, lastMsg, pending, issued, streams, viewerOf, quit,
          recent, goingBack>>

(***************************************************************************)
(* Bounds of the model.                                                    *)
(***************************************************************************)
MaxQuery == 2       \* longest query typed into a stand-alone FuzzyList
MaxLvQuery == 2     \* longest query typed into a stand-alone LogViewer
MaxLines == 3       \* most lines appended to a stand-alone LogViewer
MaxStreamLines == 2 \* most lines one follow stream delivers
MaxStreams == 2     \* most follow streams started in one run
MaxPending == 2     \* most commands in flight at once
MaxIssued == 3      \* most commands issued in one run of the wizard
MaxFollowIssued == 7 \* the same, in the runs that follow logs
MaxRunIssued == 5   \* the same, in the runs that execute twice
MaxInput == 1       \* longest text typed into a wizard input
MaxTypedInput == 2  \* the same, in the runs that confirm free-form input
MaxInputIssued == 2 \* most commands issued in those runs
MaxDetourIssued == 5 \* most commands issued in the runs that take detours
MaxScenarioQuery == 5 \* longest query typed into the viewer of the log scenario
MaxScenarioLines == 4 \* most lines that viewer holds
MaxCatalogCursor == 13 \* the cursor on the last action of the catalog
MaxCatalogIssued == 2 \* most commands issued in the runs that pick any action
MaxStepsCursor == 9 \* the cursor on the last action that needs a pod or a container
MaxStepsIssued == 5 \* most commands issued in the runs that walk an action's steps
MaxBackIssued == 4  \* most commands issued in the runs that walk an action's steps back
MaxBackCursor == 6  \* the cursor on the last action those runs pick
MaxCursor == 1      \* furthest the user moves a wizard selector's cursor
MaxReturnCursor == 3 \* the cursor on fast-deploy, the last action the returning runs pick
MaxHandOffIssued == 7 \* commands from a start without a client to the shell's hand-off
MaxHandOffCursor == 2 \* the cursor on shell
MaxNamespaceIssued == 4 \* most commands issued in the runs that switch the namespace
MaxExecIssued == 4  \* three listings and a detour's listing, or an execution
MaxReturnIssued == 4 \* most commands issued before a run starts going back

(***************************************************************************)
(* Generic helpers.                                                        *)
(***************************************************************************)
Max(a, b) == IF a >= b THEN a ELSE b

Range(s) == {s[i] : i \in 1..Len(s)}

RECURSIVE SelectSeqBy(_, _)
\* the subsequence of s whose elements are in the set keep, in order
SelectSeqBy(s, keep) ==
    IF s = <<>> THEN <<>>
    ELSE IF Head(s) \in keep THEN <<Head(s)>> \o SelectSeqBy(Tail(s), keep)
    ELSE SelectSeqBy(Tail(s), keep)

(***************************************************************************)
(* Characters.  Lower is unicode.ToLower on the characters used here.      *)
(***************************************************************************)
Lower(c) ==
    CASE c = "A" -> "a"
      [] c = "B" -> "b"
      [] c = "D" -> "d"
      [] c = "E" -> "e"
      [] c = "F" -> "f"
      [] c = "L" -> "l"
      [] c = "O" -> "o"
      [] c = "R" -> "r"
      [] c = "S" -> "s"
      [] c = "U" -> "u"
      [] c = "V" -> "v"
      [] OTHER -> c

IsUpper(c) == c \in {"A", "B", "D", "E", "F", "L", "O", "R", "S", "U", "V"}

IsLower(c) ==
    c \in {"a", "b", "c", "d", "e", "f", "g", "h", "i", "j", "k", "l", "m", "n", "o", "p", "q", "r", "s", "t", "u", "v", "w", "x", "y", "z"}

\* sahilm/fuzzy's separators
IsSeparator(c) == c \in {"/", "-", "_", " ", ".", "\\"}

ToLowerSeq(s) == [i \in 1..Len(s) |-> Lower(s[i])]

\* The characters of every string the model passes to a selector or a viewer.
Chars(s) ==
    CASE s = "" -> <<>>
      [] s = "alpha" -> <<"a", "l", "p", "h", "a">>
      [] s = "beta" -> <<"b", "e", "t", "a">>
      [] s = "gamma" -> <<"g", "a", "m", "m", "a">>
      [] s = "zeta" -> <<"z", "e", "t", "a">>
      [] s = "ab" -> <<"a", "b">>
      [] s = "ba" -> <<"b", "a">>
      [] s = "Ab" -> <<"A", "b">>
      [] s = "a-b" -> <<"a", "-", "b">>
      [] s = "b" -> <<"b">>
      [] s = "i01" -> <<"i", "0", "1">>
      [] s = "i02" -> <<"i", "0", "2">>
      [] s = "i03" -> <<"i", "0", "3">>
      [] s = "i04" -> <<"i", "0", "4">>
      [] s = "i05" -> <<"i", "0", "5">>
      [] s = "i06" -> <<"i", "0", "6">>
      [] s = "i07" -> <<"i", "0", "7">>
      [] s = "i08" -> <<"i", "0", "8">>
      [] s = "i09" -> <<"i", "0", "9">>
      [] s = "i10" -> <<"i", "1", "0">>
      [] s = "i11" -> <<"i", "1", "1">>
      [] s = "i12" -> <<"i", "1", "2">>
      [] s = "logs" -> <<"l", "o", "g", "s">>
      [] s = "logs - View container logs" -> <<"l", "o", "g", "s", " ", "-", " ", "V", "i", "e", "w", " ", "c", "o", "n", "t", "a", "i", "n", "e", "r", " ", "l", "o", "g", "s">>
      [] s = "logs-follow" -> <<"l", "o", "g", "s", "-", "f", "o", "l", "l", "o", "w">>
      [] s = "logs-follow - Follow container logs" -> <<"l", "o", "g", "s", "-", "f", "o", "l", "l", "o", "w", " ", "-", " ", "F", "o", "l", "l", "o", "w", " ", "c", "o", "n", "t", "a", "i", "n", "e", "r", " ", "l", "o", "g", "s">>
      [] s = "shell" -> <<"s", "h", "e", "l", "l">>
      [] s = "shell - Open shell (auto-detects bash/sh/ash)" -> <<"s", "h", "e", "l", "l", " ", "-", " ", "O", "p", "e", "n", " ", "s", "h", "e", "l", "l", " ", "(", "a", "u", "t", "o", "-", "d", "e", "t", "e", "c", "t", "s", " ", "b", "a", "s", "h", "/", "s", "h", "/", "a", "s", "h", ")">>
      [] s = "fast-deploy" -> <<"f", "a", "s", "t", "-", "d", "e", "p", "l", "o", "y">>
      [] s = "fast-deploy - Deploy local dist to /app/assets" -> <<"f", "a", "s", "t", "-", "d", "e", "p", "l", "o", "y", " ", "-", " ", "D", "e", "p", "l", "o", "y", " ", "l", "o", "c", "a", "l", " ", "d", "i", "s", "t", " ", "t", "o", " ", "/", "a", "p", "p", "/", "a", "s", "s", "e", "t", "s">>
      [] s = "scale" -> <<"s", "c", "a", "l", "e">>
      [] s = "scale - Scale deployment" -> <<"s", "c", "a", "l", "e", " ", "-", " ", "S", "c", "a", "l", "e", " ", "d", "e", "p", "l", "o", "y", "m", "e", "n", "t">>
      [] s = "update-image" -> <<"u", "p", "d", "a", "t", "e", "-", "i", "m", "a", "g", "e">>
      [] s = "update-image - Update container image" -> <<"u", "p", "d", "a", "t", "e", "-", "i", "m", "a", "g", "e", " ", "-", " ", "U", "p", "d", "a", "t", "e", " ", "c", "o", "n", "t", "a", "i", "n", "e", "r", " ", "i", "m", "a", "g", "e">>
      [] s = "port-forward" -> <<"p", "o", "r", "t", "-", "f", "o", "r", "w", "a", "r", "d">>
      [] s = "port-forward - Forward port to pod" -> <<"p", "o", "r", "t", "-", "f", "o", "r", "w", "a", "r", "d", " ", "-", " ", "F", "o", "r", "w", "a", "r", "d", " ", "p", "o", "r", "t", " ", "t", "o", " ", "p", "o", "d">>
      [] s = "rollback" -> <<"r", "o", "l", "l", "b", "a", "c", "k">>
      [] s = "rollback - Rollback deployment" -> <<"r", "o", "l", "l", "b", "a", "c", "k", " ", "-", " ", "R", "o", "l", "l", "b", "a", "c", "k", " ", "d", "e", "p", "l", "o", "y", "m", "e", "n", "t">>
      [] s = "set-env" -> <<"s", "e", "t", "-", "e", "n", "v">>
      [] s = "set-env - Set environment variable" -> <<"s", "e", "t", "-", "e", "n", "v", " ", "-", " ", "S", "e", "t", " ", "e", "n", "v", "i", "r", "o", "n", "m", "e", "n", "t", " ", "v", "a", "r", "i", "a", "b", "l", "e">>
      [] s = "list-env" -> <<"l", "i", "s", "t", "-", "e", "n", "v">>
      [] s = "list-env - List environment variables" -> <<"l", "i", "s", "t", "-", "e", "n", "v", " ", "-", " ", "L", "i", "s", "t", " ", "e", "n", "v", "i", "r", "o", "n", "m", "e", "n", "t", " ", "v", "a", "r", "i", "a", "b", "l", "e", "s">>
      [] s = "list-pods" -> <<"l", "i", "s", "t", "-", "p", "o", "d", "s">>
      [] s = "list-pods - List all pods" -> <<"l", "i", "s", "t", "-", "p", "o", "d", "s", " ", "-", " ", "L", "i", "s", "t", " ", "a", "l", "l", " ", "p", "o", "d", "s">>
      [] s = "list-revisions" -> <<"l", "i", "s", "t", "-", "r", "e", "v", "i", "s", "i", "o", "n", "s">>
      [] s = "list-revisions - List deployment revisions" -> <<"l", "i", "s", "t", "-", "r", "e", "v", "i", "s", "i", "o", "n", "s", " ", "-", " ", "L", "i", "s", "t", " ", "d", "e", "p", "l", "o", "y", "m", "e", "n", "t", " ", "r", "e", "v", "i", "s", "i", "o", "n", "s">>
      [] s = "ingress" -> <<"i", "n", "g", "r", "e", "s", "s">>
      [] s = "ingress - Show related ingresses" -> <<"i", "n", "g", "r", "e", "s", "s", " ", "-", " ", "S", "h", "o", "w", " ", "r", "e", "l", "a", "t", "e", "d", " ", "i", "n", "g", "r", "e", "s", "s", "e", "s">>
      [] s = "describe" -> <<"d", "e", "s", "c", "r", "i", "b", "e">>
      [] s = "describe - Describe deployment" -> <<"d", "e", "s", "c", "r", "i", "b", "e", " ", "-", " ", "D", "e", "s", "c", "r", "i", "b", "e", " ", "d", "e", "p", "l", "o", "y", "m", "e", "n", "t">>
      [] s = "+ Enter new kubeconfig path..." -> <<"+", " ", "E", "n", "t", "e", "r", " ", "n", "e", "w", " ", "k", "u", "b", "e", "c", "o", "n", "f", "i", "g", " ", "p", "a", "t", "h", ".", ".", ".">>
      [] s = "/home/u/.kube/config" -> <<"/", "h", "o", "m", "e", "/", "u", "/", ".", "k", "u", "b", "e", "/", "c", "o", "n", "f", "i", "g">>
      [] s = "ns1" -> <<"n", "s", "1">>
      [] s = "ns2" -> <<"n", "s", "2">>
      [] s = "web1" -> <<"w", "e", "b", "1">>
      [] s = "web2" -> <<"w", "e", "b", "2">>
      [] s = "p1 (Running)" -> <<"p", "1", " ", "(", "R", "u", "n", "n", "i", "n", "g", ")">>
      [] s = "p1" -> <<"p", "1">>
      [] s = "c1" -> <<"c", "1">>
      [] s = "c2" -> <<"c", "2">>
      [] s = "f1" -> <<"f", "1">>
      [] OTHER -> <<s>>

(***************************************************************************)
(* The recent lists of the config store (src/pkg/config/config.go).        *)
(***************************************************************************)
MaxRecentItems == 5

\* an addToRecent that records at the end
addToRecentLast(list, item) ==
    LET newList == SelectSeqBy(list, Range(list) \ {item}) \o <<item>>
    IN  IF Len(newList) > MaxRecentItems THEN SubSeq(newList, 1, MaxRecentItems)
        ELSE newList

addToRecent(list, item) ==
    LET newList == <<item>> \o SelectSeqBy(list, Range(list) \ {item})
    IN  IF Len(newList) > MaxRecentItems THEN SubSeq(newList, 1, MaxRecentItems)
        ELSE newList

(***************************************************************************)
(* bubbles/textinput, as far as the code relies on it: a value edited at   *)
(* its end, a focus flag and a character limit.  An unfocused input        *)
(* ignores keys.                                                           *)
(***************************************************************************)
FuzzyCharLimit == 100

NewTextInput(limit, focus, placeholder) ==
    [value |-> <<>>, focus |-> focus, limit |-> limit, placeholder |-> placeholder]

TextSetValue(ti, v) == [ti EXCEPT !.value = v]

\* key is <<"rune", c>>, <<"backspace">> or any other key (no change)
TextUpdate(ti, key) ==
    IF ~ti.focus THEN ti
    ELSE IF key[1] = "rune" THEN
        IF Len(ti.value) >= ti.limit THEN ti
        ELSE [ti EXCEPT !.value = Append(ti.value, key[2])]
    ELSE IF key[1] = "backspace" THEN
        IF ti.value = <<>> THEN ti
        ELSE [ti EXCEPT !.value = SubSeq(ti.value, 1, Len(ti.value) - 1)]
    ELSE ti

(***************************************************************************)
(* github.com/sahilm/fuzzy Find, the library FuzzyList.filterItems calls   *)
(* for a non-empty query: case-insensitive subsequence matching with a     *)
(* score, results sorted by score with sort.Stable under Less = (>=).      *)
(***************************************************************************)
FirstCharMatchBonus == 10
MatchFollowingSeparatorBonus == 20
CamelCaseMatchBonus == 20
AdjacentMatchBonus == 5
UnmatchedLeadingCharPenalty == -5
MaxUnmatchedLeadingCharPenalty == -15

EqualFold(a, b) == Lower(a) = Lower(b)

AdjacentCharBonus(i, lastMatch, currentBonus) ==
    IF lastMatch = i THEN currentBonus * 2 + AdjacentMatchBonus ELSE 0

\* One iteration of Find's inner loop at byte j (0-based) of s, pattern p.
\* st: pi patternIndex, best bestScore, mi matchedIndex, adj
\* currAdjacentMatchBonus, mis MatchedIndexes, score Match.Score,
\* last / lastIndex the previous character and its index.
FindStep(p, s, j, st) ==
    LET candidate == s[j + 1]
        hit == EqualFold(candidate, p[st.pi + 1])
        haveLast == j > 0
        bonus == IF hit /\ st.mis # <<>>
                 THEN AdjacentCharBonus(st.lastIndex, st.mis[Len(st.mis)], st.adj)
                 ELSE 0
        sc == (IF j = 0 THEN FirstCharMatchBonus ELSE 0)
              + (IF haveLast /\ IsLower(st.last) /\ IsUpper(candidate)
                 THEN CamelCaseMatchBonus ELSE 0)
              + (IF haveLast /\ IsSeparator(st.last)
                 THEN MatchFollowingSeparatorBonus ELSE 0)
              + bonus
        adj1 == IF hit THEN st.adj + bonus ELSE st.adj
        better == hit /\ sc > st.best
        best1 == IF better THEN sc ELSE st.best
        mi1 == IF better THEN j ELSE st.mi
        atEnd == j + 1 >= Len(s)
        lastPat == st.pi + 1 >= Len(p)
        commit == mi1 > -1 /\
                  (atEnd \/ (~lastPat /\ EqualFold(p[st.pi + 2], s[j + 2])))
        best2 == IF st.mis = <<>>
                 THEN best1 + Max(mi1 * UnmatchedLeadingCharPenalty,
                                  MaxUnmatchedLeadingCharPenalty)
                 ELSE best1
    IN  IF commit
        THEN [pi |-> st.pi + 1, best |-> -1, mi |-> mi1, adj |-> adj1,
              mis |-> Append(st.mis, mi1), score |-> st.score + best2,
              last |-> candidate, lastIndex |-> j]
        ELSE [pi |-> st.pi, best |-> best1, mi |-> mi1, adj |-> adj1,
              mis |-> st.mis, score |-> st.score,
              last |-> candidate, lastIndex |-> j]

RECURSIVE FindLoop(_, _, _, _)
\* Find's inner loop over the bytes of s from byte j on; it stops once the
\* whole pattern is matched
FindLoop(p, s, j, st) ==
    IF j >= Len(s) \/ st.pi >= Len(p) THEN st
    ELSE FindLoop(p, s, j + 1, FindStep(p, s, j, st))

\* the result of Find's loop on one string: whether the whole pattern was
\* matched, the MatchedIndexes and the Score
FindResult(p, s, st) ==
    [ok |-> Len(st.mis) = Len(p),
     mis |-> st.mis,
     score |-> st.score + (Len(st.mis) - Len(s))]

FindStart ==
    [pi |-> 0, best |-> -1, mi |-> -1, adj |-> 0, mis |-> <<>>,
     score |-> 0, last |-> "", lastIndex |-> 0]

\* The match of pattern p against the characters s of one string
FindChars(p, s) == FindResult(p, s, FindLoop(p, s, 0, FindStart))

\* The match of pattern p against one string
FindOne(p, str) == FindChars(p, Chars(str))

\* the fuzzy.Match of data[i] if r says it matched, as a sequence of 0 or 1
MatchOf(data, i, r) ==
    IF r.ok
    THEN <<[Str |-> data[i], Index |-> i - 1,
            MatchedIndexes |-> r.mis, Score |-> r.score]>>
    ELSE <<>>

RECURSIVE FindAll(_, _, _)
\* the matches of p among data[i..], in data order, Index 0-based
FindAll(p, data, i) ==
    IF i > Len(data) THEN <<>>
    ELSE MatchOf(data, i, FindOne(p, data[i])) \o FindAll(p, data, i + 1)

\* a Less that puts the lowest score first
MatchLessReversed(a, b) == a.Score <= b.Score

\* Matches.Less
MatchLess(a, b) == a.Score >= b.Score

\* where sort.Stable's insertion step leaves x: after the last element it
\* is not Less than
InsertAt(sorted, x) ==
    LET stops == {j \in 1..Len(sorted) : ~MatchLess(x, sorted[j])}
    IN  IF stops = {} THEN 0 ELSE CHOOSE j \in stops : \A k \in stops : k <= j

InsertAfter(sorted, x, at) ==
    SubSeq(sorted, 1, at) \o <<x>> \o SubSeq(sorted, at + 1, Len(sorted))

\* sort.Stable's insertion step: x, appended after sorted, moves towards the
\* front while Less(x, its left neighbour)
InsertMatch(sorted, x) == InsertAfter(sorted, x, InsertAt(sorted, x))

RECURSIVE SortMatches(_, _)
\* sort.Stable on fewer than 20 matches: an insertion sort
SortMatches(done, rest) ==
    IF rest = <<>> THEN done
    ELSE SortMatches(InsertMatch(done, Head(rest)), Tail(rest))

FuzzyFind(p, data) ==
    IF p = <<>> THEN <<>> ELSE SortMatches(<<>>, FindAll(p, data, 1))

(***************************************************************************)
(* FuzzyList (src/pkg/ui/fuzzylist.go).  err = "nil" is Go's nil error.    *)
(***************************************************************************)
MaxVisible == 10

NewFuzzyList ==
    [textInput |-> NewTextInput(FuzzyCharLimit, TRUE, "Type to filter..."),
     items |-> <<>>, recentItems |-> <<>>,
     filtered |-> <<>>, filteredRecent |-> <<>>,
     cursor |-> 0, maxVisible |-> MaxVisible, scrollOffset |-> 0,
     loading |-> TRUE, err |-> "nil", inRecentSection |-> TRUE]

\* the fuzzy.Match values filterItems builds itself for an empty query
IdentityMatches(data) ==
    [i \in 1..Len(data) |->
        [Str |-> data[i], Index |-> i - 1, MatchedIndexes |-> <<>>, Score |-> 0]]

totalItems(f) == Len(f.filteredRecent) + Len(f.filtered)

\* a filterItems that keeps the cursor where it was
FilterCursorKept(cursor, total) == cursor

\* a filterItems that moves the cursor on by one
FilterCursorNext(cursor, total) == IF cursor + 1 < total THEN cursor + 1 ELSE 0

\* the cursor filterItems leaves: reset to 0 when out of bounds
FilterCursor(cursor, total) == IF cursor >= total THEN 0 ELSE cursor

\* filterItems once both filtered lists are computed
Filtered(f, filteredRecent, filtered, cursor) ==
    [f EXCEPT !.filteredRecent = filteredRecent,
              !.filtered = filtered,
              !.cursor = cursor,
              !.inRecentSection = cursor < Len(filteredRecent),
              !.scrollOffset = 0]

FilteredBoth(f, filteredRecent, filtered) ==
    Filtered(f, filteredRecent, filtered,
             FilterCursor(f.cursor, Len(filteredRecent) + Len(filtered)))

\* one list under the query: every item for an empty query, else fuzzy.Find
FilterList(query, data) ==
    IF query = <<>> THEN IdentityMatches(data) ELSE FuzzyFind(query, data)

\* a main list that keeps the recent items
itemsWithRecent(f) == f.items

\* the items that are not recent items, in order
itemsWithoutRecent(f) == SelectSeqBy(f.items, Range(f.items) \ Range(f.recentItems))

filterItems(f) ==
    FilteredBoth(f,
        IF Len(f.recentItems) > 0 THEN FilterList(f.textInput.value, f.recentItems)
        ELSE <<>>,
        FilterList(f.textInput.value, itemsWithoutRecent(f)))

SetItemsFlags(f, items) == [f EXCEPT !.items = items, !.loading = FALSE]

SetItems(f, items) == filterItems(SetItemsFlags(f, items))

SetRecentItems(f, items) == filterItems([f EXCEPT !.recentItems = items])

SetError(f, err) == [f EXCEPT !.err = err, !.loading = FALSE]

SetLoading(f, loading) == [f EXCEPT !.loading = loading]

GetSelected(f) ==
    IF f.inRecentSection /\ Len(f.filteredRecent) > 0 /\ f.cursor < Len(f.filteredRecent)
    THEN f.filteredRecent[f.cursor + 1].Str
    ELSE LET mainCursor == IF Len(f.filteredRecent) > 0
                           THEN f.cursor - Len(f.filteredRecent)
                           ELSE f.cursor
         IN  IF mainCursor >= 0 /\ mainCursor < Len(f.filtered)
             THEN f.filtered[mainCursor + 1].Str
             ELSE ""

GetInput(f) == f.textInput.value

\* Reset without the cursor assignment
ResetCursorKept(f) ==
    filterItems([f EXCEPT !.textInput = TextSetValue(f.textInput, <<>>),
                          !.scrollOffset = 0,
                          !.inRecentSection = TRUE])

Reset(f) ==
    filterItems([f EXCEPT !.textInput = TextSetValue(f.textInput, <<>>),
                          !.cursor = 0,
                          !.scrollOffset = 0,
                          !.inRecentSection = TRUE])

\* the cursor after "down" / "ctrl+n"
DownCursor(cursor, total) == IF cursor < total - 1 THEN cursor + 1 ELSE cursor

\* the cursor after "pgdown"
PgDownCursor(cursor, maxVisible, total) ==
    LET c1 == cursor + maxVisible
        c2 == IF c1 >= total THEN total - 1 ELSE c1
    IN  IF c2 < 0 THEN 0 ELSE c2

\* FuzzyList.Update for a key message.  key[1] is the key's name, or "rune"
\* with the typed character in key[2].
FuzzyUpdate(f, key) ==
    LET total == totalItems(f)
        k == key[1]
    IN  CASE k \in {"up", "ctrl+p"} ->
               IF f.cursor > 0
               THEN LET c == f.cursor - 1
                    IN  [f EXCEPT !.cursor = c,
                                  !.inRecentSection = c < Len(f.filteredRecent),
                                  !.scrollOffset = IF c < f.scrollOffset THEN c
                                                   ELSE f.scrollOffset]
               ELSE f
          [] k \in {"down", "ctrl+n"} ->
               LET c == DownCursor(f.cursor, total)
               IN  IF c # f.cursor
                   THEN [f EXCEPT !.cursor = c,
                                  !.inRecentSection = c < Len(f.filteredRecent),
                                  !.scrollOffset =
                                      IF c >= f.scrollOffset + f.maxVisible
                                      THEN c - f.maxVisible + 1
                                      ELSE f.scrollOffset]
                   ELSE f
          [] k = "pgup" ->
               LET c == IF f.cursor - f.maxVisible < 0 THEN 0
                        ELSE f.cursor - f.maxVisible
               IN  [f EXCEPT !.cursor = c,
                             !.inRecentSection = c < Len(f.filteredRecent),
                             !.scrollOffset = c]
          [] k = "pgdown" ->
               LET c == PgDownCursor(f.cursor, f.maxVisible, total)
               IN  [f EXCEPT !.cursor = c,
                             !.inRecentSection = c < Len(f.filteredRecent),
                             !.scrollOffset =
                                 IF c >= f.scrollOffset + f.maxVisible
                                 THEN c - f.maxVisible + 1
                                 ELSE f.scrollOffset]
          [] OTHER ->
               LET ti == TextUpdate(f.textInput, key)
                   f1 == [f EXCEPT !.textInput = ti]
               IN  IF ti.value # f.textInput.value THEN filterItems(f1) ELSE f1

\* what FuzzyList.View shows below the input box
FuzzyViewMode(f) ==
    IF f.loading THEN "loading"
    ELSE IF f.err # "nil" THEN "error"
    ELSE IF totalItems(f) = 0 THEN "empty"
    ELSE "list"

(***************************************************************************)
(* LogViewer (src/pkg/ui/logviewer.go).  A line is the sequence of its     *)
(* characters.  The list viewport is kept by its Height; its scroll offset *)
(* and the rendered text are presentation only.                            *)
(***************************************************************************)
LogCharLimit == 200

MinListHeight == 5

\* msg.String() of a key message: a typed character is named by itself
KeyName(key) == IF key[1] = "rune" THEN key[2] ELSE key[1]

NewLogViewer ==
    [searchInput |-> NewTextInput(LogCharLimit, FALSE, "Type to search..."),
     allLines |-> <<>>, filteredLines |-> <<>>, recentSearches |-> <<>>,
     searchQuery |-> <<>>, selectedIndex |-> 0, showSearch |-> TRUE,
     ready |-> FALSE, width |-> 0, height |-> 0, viewportHeight |-> 0,
     streaming |-> FALSE, autoScroll |-> TRUE]

\* Go's integer division truncates towards zero
GoDiv(a, b) == IF a >= 0 THEN a \div b ELSE -((-a) \div b)

\* listHeight of SetSize
ListHeight(height) ==
    LET h == GoDiv((height - 10) * 6, 10)
    IN  IF h < MinListHeight THEN MinListHeight ELSE h

LvSetSize(l, width, height) ==
    [l EXCEPT !.width = width, !.height = height,
              !.viewportHeight = ListHeight(height), !.ready = TRUE]

\* strings.Contains(line, query) on character sequences
Contains(line, query) ==
    \E i \in 0..(Len(line) - Len(query)) : SubSeq(line, i + 1, i + Len(query)) = query

RECURSIVE FilterLinesPrefix(_, _)
\* a filter that keeps the lines starting with query
FilterLinesPrefix(lines, query) ==
    IF lines = <<>> THEN <<>>
    ELSE (IF /\ Len(query) <= Len(Head(lines))
             /\ SubSeq(ToLowerSeq(Head(lines)), 1, Len(query)) = query
          THEN <<Head(lines)>> ELSE <<>>)
         \o FilterLinesPrefix(Tail(lines), query)

RECURSIVE FilterLines(_, _)
\* the lines whose lower-cased text contains query, in order
FilterLines(lines, query) ==
    IF lines = <<>> THEN <<>>
    ELSE (IF Contains(ToLowerSeq(Head(lines)), query) THEN <<Head(lines)>> ELSE <<>>)
         \o FilterLines(Tail(lines), query)

\* a filterLogs that clamps the selection to the last line
FilterSelectionClamped(selectedIndex, n) ==
    IF selectedIndex >= n THEN n - 1 ELSE selectedIndex

\* the selection filterLogs leaves: reset to 0 when out of bounds
FilterSelection(selectedIndex, n) == IF selectedIndex >= n THEN 0 ELSE selectedIndex

filterLogs(l) ==
    LET query == ToLowerSeq(l.searchInput.value)
        filtered == IF query = <<>> THEN l.allLines ELSE FilterLines(l.allLines, query)
    IN  [l EXCEPT !.searchQuery = l.searchInput.value,
                  !.filteredLines = filtered,
                  !.selectedIndex = FilterSelection(l.selectedIndex, Len(filtered))]

RECURSIVE SplitLines(_, _)
\* strings.Split(text, "\n"): cur is the line being read
SplitLines(text, cur) ==
    IF text = <<>> THEN <<cur>>
    ELSE IF Head(text) = "\n" THEN <<cur>> \o SplitLines(Tail(text), <<>>)
    ELSE SplitLines(Tail(text), Append(cur, Head(text)))

SetLogs(l, logs) ==
    filterLogs([l EXCEPT !.allLines = IF logs = <<>> THEN <<>> ELSE SplitLines(logs, <<>>)])

\* an AppendLog that leaves the selection where the re-filter left it
FollowSelectionKept(l) == l.selectedIndex

\* the selection AppendLog leaves after its re-filter
FollowSelection(l) ==
    IF l.autoScroll /\ l.streaming /\ Len(l.filteredLines) > 0
    THEN Len(l.filteredLines) - 1
    ELSE l.selectedIndex

\* an AppendLog that appends the line twice
AppendLogTwice(l, line) ==
    [l EXCEPT !.allLines = l.allLines \o <<line, line>>,
              !.filteredLines = l.filteredLines \o <<line, line>>]

AppendLog(l, line) ==
    LET l1 == filterLogs([l EXCEPT !.allLines = Append(l.allLines, line)])
    IN  [l1 EXCEPT !.selectedIndex = FollowSelection(l1)]

SetStreaming(l, streaming) == [l EXCEPT !.streaming = streaming, !.autoScroll = streaming]

LvFocus(l) == [l EXCEPT !.searchInput.focus = TRUE]

\* the selection after "pgdown" / "ctrl+d"
LvPgDownSelection(sel, half, n) ==
    LET s1 == sel + half
        s2 == IF s1 >= n THEN n - 1 ELSE s1
    IN  IF s2 < 0 THEN 0 ELSE s2

\* the text-input tail of LogViewer.Update
LvTextUpdate(l, key) ==
    IF l.searchInput.focus
    THEN LET ti == TextUpdate(l.searchInput, key)
             l1 == [l EXCEPT !.searchInput = ti]
         IN  IF ti.value # l.searchInput.value THEN filterLogs(l1) ELSE l1
    ELSE l

\* LogViewer.Update for a key message
LvUpdate(l, key) ==
    LET k == KeyName(key)
        n == Len(l.filteredLines)
        focused == l.searchInput.focus
    IN  CASE k \in {"up", "k"} ->
               IF l.selectedIndex > 0
               THEN [l EXCEPT !.selectedIndex = l.selectedIndex - 1] ELSE l
          [] k \in {"down", "j"} ->
               IF l.selectedIndex < n - 1
               THEN [l EXCEPT !.selectedIndex = l.selectedIndex + 1] ELSE l
          [] k \in {"pgup", "ctrl+u"} ->
               LET s1 == l.selectedIndex - GoDiv(l.viewportHeight, 2)
               IN  [l EXCEPT !.selectedIndex = IF s1 < 0 THEN 0 ELSE s1]
          [] k \in {"pgdown", "ctrl+d"} ->
               [l EXCEPT !.selectedIndex =
                   LvPgDownSelection(l.selectedIndex, GoDiv(l.viewportHeight, 2), n)]
          [] k \in {"home", "g"} ->
               IF ~focused THEN [l EXCEPT !.selectedIndex = 0]
               ELSE LvTextUpdate(l, key)
          [] k \in {"end", "G"} ->
               IF ~focused
               THEN (IF n > 0 THEN [l EXCEPT !.selectedIndex = n - 1] ELSE l)
               ELSE LvTextUpdate(l, key)
          [] k = "/" ->
               IF ~focused THEN [l EXCEPT !.searchInput.focus = TRUE]
               ELSE LvTextUpdate(l, key)
          [] k = "enter" ->
               IF focused THEN [l EXCEPT !.searchInput.focus = FALSE]
               ELSE LvTextUpdate(l, key)
          [] k = "tab" ->
               [l EXCEPT !.searchInput.focus = ~focused]
          [] k = "ctrl+l" ->
               filterLogs([l EXCEPT !.searchInput = TextSetValue(l.searchInput, <<>>)])
          [] OTHER -> LvTextUpdate(l, key)

(***************************************************************************)
(* The wizard (src/unnamed/part_000).                                      *)
(*                                                                         *)
(* m is the bubbletea Model.  A tea.Cmd a handler returns is a record put  *)
(* in the bag pending; it holds what its closure reads from the Model copy *)
(* it captured.  Its result message is drawn when it is delivered.         *)
(* streams[i] is the i-th follow stream: cancelled (its context was        *)
(* cancelled), ended (its end was read), sent (lines read from it).        *)
(* The preference store's recent lists are read as empty here.             *)
(***************************************************************************)
StateSelectKubeConfig == "SelectKubeConfig"
StateSelectNamespace == "SelectNamespace"
StateSelectDeployment == "SelectDeployment"
StateSelectCommand == "SelectCommand"
StateSelectPod == "SelectPod"
StateSelectContainer == "SelectContainer"
StateSelectAssetFolder == "SelectAssetFolder"
StateInputValue == "InputValue"
StateExecuting == "Executing"
StateShowResult == "ShowResult"
StateViewLogs == "ViewLogs"

Command(name, description, needsPod, needsContainer, needsInput, inputPrompt) ==
    [Name |-> name, Description |-> description, NeedsPod |-> needsPod,
     NeedsContainer |-> needsContainer, NeedsInput |-> needsInput,
     InputPrompt |-> inputPrompt]

AvailableCommands ==
    << Command("logs", "View container logs", TRUE, TRUE, FALSE, ""),
       Command("logs-follow", "Follow container logs", TRUE, TRUE, FALSE, ""),
       Command("shell", "Open shell (auto-detects bash/sh/ash)", TRUE, TRUE, FALSE, ""),
       Command("fast-deploy", "Deploy local dist to /app/assets", TRUE, TRUE, FALSE, ""),
       Command("scale", "Scale deployment", FALSE, FALSE, TRUE, "Enter replica count:"),
       Command("update-image", "Update container image", FALSE, TRUE, TRUE, "Enter new image:"),
       Command("port-forward", "Forward port to pod", TRUE, FALSE, TRUE, "Enter ports (local:remote):"),
       Command("rollback", "Rollback deployment", FALSE, FALSE, TRUE, "Enter revision number:"),
       Command("set-env", "Set environment variable", FALSE, TRUE, TRUE, "Enter KEY=VALUE:"),
       Command("list-env", "List environment variables", FALSE, TRUE, FALSE, ""),
       Command("list-pods", "List all pods", FALSE, FALSE, FALSE, ""),
       Command("list-revisions", "List deployment revisions", FALSE, FALSE, FALSE, ""),
       Command("ingress", "Show related ingresses", FALSE, FALSE, FALSE, ""),
       Command("describe", "Describe deployment", FALSE, FALSE, FALSE, "") >>

\* Go's nil *Command
NilCommand == Command("nil", "", FALSE, FALSE, FALSE, "")

\* the ad-hoc command handleEnter builds for a kubeconfig path entry
SetKubeConfigCommand ==
    Command("set-kubeconfig", "", FALSE, FALSE, FALSE, "Enter kubeconfig file path:")

\* the index of the first occurrence of sep in s (0-based), -1 if none
IndexOf(s, sep) ==
    LET hits == {i \in 0..(Len(s) - Len(sep)) : SubSeq(s, i + 1, i + Len(sep)) = sep}
    IN  IF hits = {} THEN -1 ELSE CHOOSE i \in hits : \A j \in hits : i <= j

HasPrefix(s, prefix) ==
    Len(s) >= Len(prefix) /\ SubSeq(s, 1, Len(prefix)) = prefix

\* strings.Split(s, sep)[0]
SplitFirst(s, sep) ==
    LET i == IndexOf(s, sep) IN IF i = -1 THEN s ELSE SubSeq(s, 1, i)

\* the strings NewModel gives the command selector: "<name> - <description>"
CommandItemStrings ==
    {"logs - View container logs", "logs-follow - Follow container logs",
     "shell - Open shell (auto-detects bash/sh/ash)",
     "fast-deploy - Deploy local dist to /app/assets", "scale - Scale deployment",
     "update-image - Update container image", "port-forward - Forward port to pod",
     "rollback - Rollback deployment", "set-env - Set environment variable",
     "list-env - List environment variables", "list-pods - List all pods",
     "list-revisions - List deployment revisions", "ingress - Show related ingresses",
     "describe - Describe deployment"}

CommandItem(c) ==
    CHOOSE s \in CommandItemStrings : SplitFirst(Chars(s), <<" ", "-", " ">>) = Chars(c.Name)

cmdNames == [i \in 1..Len(AvailableCommands) |-> CommandItem(AvailableCommands[i])]

\* the catalog entry handleEnter resolves a selected item to; cur if none
ResolveCommand(selected, cur) ==
    LET cmdName == SplitFirst(Chars(selected), <<" ", "-", " ">>)
        hits == {i \in 1..Len(AvailableCommands) : Chars(AvailableCommands[i].Name) = cmdName}
    IN  IF hits = {} THEN cur
        ELSE AvailableCommands[CHOOSE i \in hits : \A j \in hits : i <= j]

PodNames == {"", "p1"}

extractPodName(podStr) ==
    LET cs == Chars(podStr)
        idx == IndexOf(cs, <<" ", "(">>)
    IN  IF idx = -1 THEN podStr
        ELSE CHOOSE n \in PodNames : Chars(n) = SubSeq(cs, 1, idx)

ValueCharLimit == 200

Digits == {"0", "1", "2", "3", "4", "5", "6", "7", "8", "9"}

\* whether strconv.Atoi / ParseInt accept the text (range aside)
IsInteger(v) ==
    LET body == IF v # <<>> /\ v[1] \in {"+", "-"} THEN Tail(v) ELSE v
    IN  body # <<>> /\ \A i \in 1..Len(body) : body[i] \in Digits

CountOf(v, c) == Cardinality({i \in 1..Len(v) : v[i] = c})

\* k8sClient: "nil", "initial" (the client main.go created) or "new" (one
\* created by a kubeconfig change)
NewModel(client, lastNamespace) ==
    [k8sClient |-> client,
     initialClientErr |-> client = "nil",
     state |-> IF client = "nil" THEN StateSelectKubeConfig
               ELSE IF lastNamespace = "" THEN StateSelectNamespace
               ELSE StateSelectDeployment,
     prevStates |-> <<>>,
     kubeconfig |-> IF client # "nil" THEN "/home/u/.kube/config" ELSE "",
     namespace |-> lastNamespace, deployment |-> "", command |-> NilCommand,
     pod |-> "", container |-> "", inputValue |-> <<>>, assetFolder |-> "",
     kcSelector |-> NewFuzzyList, nsSelector |-> NewFuzzyList,
     depSelector |-> NewFuzzyList,
     cmdSelector |-> SetItems(NewFuzzyList, cmdNames),
     podSelector |-> NewFuzzyList, contSelector |-> NewFuzzyList,
     assetSelector |-> NewFuzzyList,
     valueInput |-> NewTextInput(ValueCharLimit, FALSE, ""),
     logViewer |-> NewLogViewer,
     result |-> "", err |-> "nil", width |-> 0, height |-> 0,
     streaming |-> FALSE, cancelStream |-> 0,
     showNamespaceChange |-> FALSE, showKubeConfigChange |-> client = "nil"]

\* A tea.Cmd: kind names the closure, the other fields are what it reads.
Cmd(kind, name, client, ns, dep, pod, cont, input, stream) ==
    [kind |-> kind, name |-> name, client |-> client, ns |-> ns, dep |-> dep,
     pod |-> pod, cont |-> cont, input |-> input, stream |-> stream]

loadNamespaces(mm) == Cmd("loadNamespaces", "", mm.k8sClient, "", "", "", "", <<>>, 0)

loadKubeConfigs(mm) == Cmd("loadKubeConfigs", "", mm.k8sClient, "", "", "", "", <<>>, 0)

loadDeployments(mm) ==
    Cmd("loadDeployments", "", mm.k8sClient, mm.namespace, "", "", "", <<>>, 0)

loadPods(mm) ==
    Cmd("loadPods", "", mm.k8sClient, mm.namespace, mm.deployment, "", "", <<>>, 0)

loadContainers(mm) ==
    Cmd("loadContainers", "", mm.k8sClient, mm.namespace, "", extractPodName(mm.pod), "", <<>>, 0)

loadAssetFolders(mm) ==
    Cmd("loadAssetFolders", "", mm.k8sClient, mm.namespace, "", extractPodName(mm.pod),
        mm.container, <<>>, 0)

loadPodsAndSelectFirst(mm) ==
    Cmd("loadPodsAndSelectFirst", "", mm.k8sClient, mm.namespace, mm.deployment, "", "", <<>>, 0)

executeFastDeploy(mm) ==
    Cmd("executeFastDeploy", "fast-deploy", mm.k8sClient, mm.namespace, "",
        extractPodName(mm.pod), mm.container, mm.inputValue, 0)

\* the closure of handleEnter that calls k8s.NewClientWithConfig(path)
newClientWithConfig(path) == Cmd("newClient", path, "nil", "", "", "", "", <<>>, 0)

streamLogs(mm, id) ==
    Cmd("streamLogs", "logs-follow", mm.k8sClient, mm.namespace, "",
        extractPodName(mm.pod), mm.container, <<>>, id)

readNextLine(id) == Cmd("readNextLine", "", "nil", "", "", "", "", <<>>, id)

\* a closure of executeCommand that calls the client
clientCall(mm) ==
    Cmd("exec", mm.command.Name, mm.k8sClient, mm.namespace, mm.deployment,
        extractPodName(mm.pod), mm.container, mm.inputValue, 0)

\* a closure of executeCommand that only returns CommandResultMsg{err}
invalidInput(mm) ==
    Cmd("invalidInput", mm.command.Name, "nil", "", "", "", "", mm.inputValue, 0)

\* the port-forward closure: returns ExecCompleteMsg{nil} without a call
handOff(mm) == Cmd("handOff", mm.command.Name, "nil", "", "", "", "", mm.inputValue, 0)

(* A handler's outcome: the Model it returns, the command it returns (a    *)
(* sequence of at most one), the streams, and whether it returned tea.Quit *)
Out(mm, st, cmd, q) == [m |-> mm, st |-> st, cmd |-> cmd, quit |-> q]

\* valueInput.SetValue(""), set the placeholder, Focus()
PromptInput(mm, placeholder) ==
    [mm EXCEPT !.valueInput = [TextSetValue(mm.valueInput, <<>>)
                                  EXCEPT !.placeholder = placeholder, !.focus = TRUE]]

\* an executeCommand that calls the client whatever the input is
executeCommandUnchecked(mm0, st) ==
    Out([mm0 EXCEPT !.state = StateExecuting], st,
        <<clientCall([mm0 EXCEPT !.state = StateExecuting])>>, FALSE)

executeCommand(mm0, st) ==
    LET mm == [mm0 EXCEPT !.state = StateExecuting]
        name == mm.command.Name
    IN  CASE name = "shell" -> Out(mm, st, <<clientCall(mm)>>, FALSE)
          [] name = "logs" -> Out(mm, st, <<clientCall(mm)>>, FALSE)
          [] name = "logs-follow" ->
               LET id == Len(st) + 1
                   viewer == SetStreaming(
                                SetLogs(LvSetSize(NewLogViewer, mm.width, mm.height), <<>>),
                                TRUE)
                   m1 == [mm EXCEPT !.streaming = TRUE, !.cancelStream = id,
                                    !.logViewer = viewer, !.state = StateViewLogs]
               IN  Out(m1, Append(st, [cancelled |-> FALSE, ended |-> FALSE, sent |-> 0]),
                       <<streamLogs(m1, id)>>, FALSE)
          [] name = "scale" ->
               IF ~IsInteger(mm.inputValue)
               THEN Out(mm, st, <<invalidInput(mm)>>, FALSE)
               ELSE Out(mm, st, <<clientCall(mm)>>, FALSE)
          [] name = "update-image" -> Out(mm, st, <<clientCall(mm)>>, FALSE)
          [] name = "port-forward" ->
               IF CountOf(mm.inputValue, ":") # 1
               THEN Out(mm, st, <<invalidInput(mm)>>, FALSE)
               ELSE Out(mm, st, <<handOff(mm)>>, FALSE)
          [] name = "rollback" ->
               IF ~IsInteger(mm.inputValue)
               THEN Out(mm, st, <<invalidInput(mm)>>, FALSE)
               ELSE Out(mm, st, <<clientCall(mm)>>, FALSE)
          [] name = "set-env" ->
               IF CountOf(mm.inputValue, "=") = 0
               THEN Out(mm, st, <<invalidInput(mm)>>, FALSE)
               ELSE Out(mm, st, <<clientCall(mm)>>, FALSE)
          [] name \in {"list-env", "list-pods", "list-revisions", "ingress", "describe"} ->
               Out(mm, st, <<clientCall(mm)>>, FALSE)
          [] OTHER -> Out(mm, st, <<>>, FALSE)

\* a proceedAfterContainer that waits for the user
proceedAfterContainerStays(mm, st) == Out(mm, st, <<>>, FALSE)

proceedAfterContainer(mm, st) ==
    IF mm.command.Name = "fast-deploy"
    THEN LET m1 == [mm EXCEPT !.state = StateSelectAssetFolder,
                              !.assetSelector = Reset(mm.assetSelector)]
         IN  Out(m1, st, <<loadAssetFolders(m1)>>, FALSE)
    ELSE IF mm.command.NeedsInput
    THEN Out(PromptInput([mm EXCEPT !.state = StateInputValue], mm.command.InputPrompt),
             st, <<>>, FALSE)
    ELSE executeCommand(mm, st)

\* a proceedAfterPod that skips the container
proceedAfterPodSkips(mm, st) ==
    IF mm.command.NeedsInput
    THEN Out(PromptInput([mm EXCEPT !.state = StateInputValue], mm.command.InputPrompt),
             st, <<>>, FALSE)
    ELSE executeCommand(mm, st)

proceedAfterPod(mm, st) ==
    IF mm.command.NeedsContainer
    THEN LET m1 == [mm EXCEPT !.state = StateSelectContainer,
                              !.contSelector = Reset(mm.contSelector)]
         IN  Out(m1, st, <<loadContainers(m1)>>, FALSE)
    ELSE IF mm.command.NeedsInput
    THEN Out(PromptInput([mm EXCEPT !.state = StateInputValue], mm.command.InputPrompt),
             st, <<>>, FALSE)
    ELSE executeCommand(mm, st)

\* a proceedAfterCommand that asks for a pod whatever the action needs
proceedAfterCommandToPod(mm, st) ==
    LET m1 == [mm EXCEPT !.state = StateSelectPod,
                         !.podSelector = Reset(mm.podSelector)]
    IN  Out(m1, st, <<loadPods(m1)>>, FALSE)

proceedAfterCommand(mm, st) ==
    IF mm.command.NeedsPod
    THEN LET m1 == [mm EXCEPT !.state = StateSelectPod,
                              !.podSelector = Reset(mm.podSelector)]
         IN  Out(m1, st, <<loadPods(m1)>>, FALSE)
    ELSE IF mm.command.NeedsContainer
    THEN LET m1 == [mm EXCEPT !.state = StateSelectContainer,
                              !.contSelector = Reset(mm.contSelector)]
         IN  Out(m1, st, <<loadPodsAndSelectFirst(m1)>>, FALSE)
    ELSE IF mm.command.NeedsInput
    THEN Out(PromptInput([mm EXCEPT !.state = StateInputValue], mm.command.InputPrompt),
             st, <<>>, FALSE)
    ELSE executeCommand(mm, st)

\* a goBack that leaves action selection where it is
GoBackFromCommandStays(mm, st) == Out(mm, st, <<>>, FALSE)

\* a goBack that leads from resource selection to namespace selection
GoBackFromDeploymentToNamespace(mm, st) ==
    Out([mm EXCEPT !.state = StateSelectNamespace], st, <<loadNamespaces(mm)>>, FALSE)

\* where goBack leads from action selection
GoBackFromCommand(mm, st) ==
    LET m1 == [mm EXCEPT !.state = StateSelectDeployment,
                         !.depSelector = Reset(mm.depSelector)]
    IN  Out(m1, st, <<loadDeployments(m1)>>, FALSE)

\* where goBack leads from resource selection
GoBackFromDeployment(mm, st) == Out(mm, st, <<>>, FALSE)

\* a goBack that returns to action selection from wherever it is
goBackToCommand(mm, st) ==
    Out([mm EXCEPT !.state = StateSelectCommand,
                   !.cmdSelector = Reset(mm.cmdSelector)], st, <<>>, FALSE)

goBack(mm, st) ==
    LET toCommand == [mm EXCEPT !.state = StateSelectCommand,
                                !.cmdSelector = Reset(mm.cmdSelector)]
        toPod == [mm EXCEPT !.state = StateSelectPod,
                            !.podSelector = Reset(mm.podSelector)]
        toContainer == [mm EXCEPT !.state = StateSelectContainer,
                                  !.contSelector = Reset(mm.contSelector)]
        toAsset == [mm EXCEPT !.state = StateSelectAssetFolder,
                              !.assetSelector = Reset(mm.assetSelector)]
    IN  CASE mm.state = StateSelectDeployment -> GoBackFromDeployment(mm, st)
          [] mm.state = StateSelectCommand -> GoBackFromCommand(mm, st)
          [] mm.state = StateSelectPod -> Out(toCommand, st, <<>>, FALSE)
          [] mm.state = StateSelectContainer ->
               IF mm.command.NeedsPod THEN Out(toPod, st, <<loadPods(toPod)>>, FALSE)
               ELSE Out(toCommand, st, <<>>, FALSE)
          [] mm.state = StateSelectAssetFolder ->
               Out(toContainer, st, <<loadContainers(toContainer)>>, FALSE)
          [] mm.state = StateInputValue ->
               IF mm.command.Name = "fast-deploy"
               THEN Out(toAsset, st, <<loadAssetFolders(toAsset)>>, FALSE)
               ELSE IF mm.command.NeedsContainer
               THEN Out(toContainer, st, <<loadContainers(toContainer)>>, FALSE)
               ELSE IF mm.command.NeedsPod
               THEN Out(toPod, st, <<loadPods(toPod)>>, FALSE)
               ELSE Out(toCommand, st, <<>>, FALSE)
          [] mm.state = StateShowResult ->
               Out([toCommand EXCEPT !.result = "", !.err = "nil"], st, <<>>, FALSE)
          [] OTHER -> Out(mm, st, <<>>, FALSE)

\* the kubeconfig path a typed input names
PathString(v) == IF v = Chars("/home/u/.kube/config") THEN "/home/u/.kube/config" ELSE "(typed path)"

\* a namespace confirmation that ends the detour by returning to the state
\* on top of the back stack
ConfirmNamespacePopped(mm, st, selected) ==
    Out([mm EXCEPT !.namespace = selected,
                   !.showNamespaceChange = FALSE,
                   !.state = IF mm.prevStates = <<>> THEN StateSelectDeployment
                             ELSE mm.prevStates[Len(mm.prevStates)],
                   !.prevStates = IF mm.prevStates = <<>> THEN <<>>
                                  ELSE SubSeq(mm.prevStates, 1, Len(mm.prevStates) - 1)],
        st, <<>>, FALSE)

\* what confirming the namespace selection does with the selected item
ConfirmNamespace(mm, st, selected) ==
    LET m1 == [mm EXCEPT !.namespace = selected,
                         !.showNamespaceChange = FALSE,
                         !.state = StateSelectDeployment,
                         !.depSelector = Reset(mm.depSelector)]
    IN  Out(m1, st, <<loadDeployments(m1)>>, FALSE)

\* a confirmation of the result that keeps what was held
ConfirmResultKept(mm, st) ==
    Out([mm EXCEPT !.state = StateSelectCommand], st, <<>>, FALSE)

\* handleEnter in StateShowResult
ConfirmResult(mm, st) ==
    Out([mm EXCEPT !.result = "", !.err = "nil", !.state = StateSelectCommand,
                   !.cmdSelector = Reset(mm.cmdSelector)],
        st, <<>>, FALSE)

\* handleEnter in StateInputValue once inputValue is assigned
ConfirmInputValue(m1, st) ==
    IF m1.inputValue = <<>> THEN Out(m1, st, <<>>, FALSE)
    ELSE IF m1.command.Name = "set-kubeconfig"
    THEN Out(m1, st, <<newClientWithConfig(PathString(m1.inputValue))>>, FALSE)
    ELSE IF m1.command.Name = "fast-deploy"
    THEN Out([m1 EXCEPT !.state = StateExecuting], st,
             <<executeFastDeploy([m1 EXCEPT !.state = StateExecuting])>>, FALSE)
    ELSE executeCommand(m1, st)

\* a confirmation that executes whatever the input is
ConfirmInputUnchecked(mm, st) ==
    executeCommand([mm EXCEPT !.inputValue = mm.valueInput.value], st)

\* handleEnter in StateInputValue
ConfirmInput(mm, st) ==
    ConfirmInputValue([mm EXCEPT !.inputValue = mm.valueInput.value], st)

handleEnter(mm, st) ==
    CASE mm.state = StateSelectKubeConfig ->
           LET selected == GetSelected(mm.kcSelector)
           IN  IF selected = "" THEN Out(mm, st, <<>>, FALSE)
               ELSE IF HasPrefix(Chars(selected), <<"+", " ">>)
               THEN Out([PromptInput(mm, "Enter kubeconfig path (e.g., ~/.kube/config-prod)")
                            EXCEPT !.state = StateInputValue,
                                                !.command = SetKubeConfigCommand],
                        st, <<>>, FALSE)
               ELSE Out(mm, st, <<newClientWithConfig(selected)>>, FALSE)
      [] mm.state = StateSelectNamespace ->
           LET selected == GetSelected(mm.nsSelector)
           IN  IF selected = "" THEN Out(mm, st, <<>>, FALSE)
               ELSE ConfirmNamespace(mm, st, selected)
      [] mm.state = StateSelectDeployment ->
           LET selected == GetSelected(mm.depSelector)
           IN  IF selected = "" THEN Out(mm, st, <<>>, FALSE)
               ELSE Out([mm EXCEPT !.deployment = selected,
                                   !.state = StateSelectCommand,
                                   !.cmdSelector =
                                       SetRecentItems(Reset(mm.cmdSelector), <<>>)],
                        st, <<>>, FALSE)
      [] mm.state = StateSelectCommand ->
           LET selected == GetSelected(mm.cmdSelector)
               command == ResolveCommand(selected, mm.command)
           IN  IF selected = "" THEN Out(mm, st, <<>>, FALSE)
               ELSE IF command = NilCommand
               THEN Out([mm EXCEPT !.command = command], st, <<>>, FALSE)
               ELSE proceedAfterCommand([mm EXCEPT !.command = command], st)
      [] mm.state = StateSelectPod ->
           LET selected == GetSelected(mm.podSelector)
           IN  IF selected = "" THEN Out(mm, st, <<>>, FALSE)
               ELSE proceedAfterPod([mm EXCEPT !.pod = selected], st)
      [] mm.state = StateSelectContainer ->
           LET selected == GetSelected(mm.contSelector)
           IN  IF selected = "" THEN Out(mm, st, <<>>, FALSE)
               ELSE proceedAfterContainer([mm EXCEPT !.container = selected], st)
      [] mm.state = StateSelectAssetFolder ->
           LET selected == GetSelected(mm.assetSelector)
           IN  IF selected = "" THEN Out(mm, st, <<>>, FALSE)
               ELSE Out(PromptInput([mm EXCEPT !.assetFolder = selected,
                                               !.state = StateInputValue],
                                    "Enter local dist folder path (e.g., ~/project/dist):"),
                        st, <<>>, FALSE)
      [] mm.state = StateInputValue -> ConfirmInput(mm, st)
      [] mm.state = StateShowResult -> ConfirmResult(mm, st)
      [] OTHER -> Out(mm, st, <<>>, FALSE)

\* the selector (or text input) the state's input goes to
ActiveInput(mm) ==
    CASE mm.state = StateSelectKubeConfig -> GetInput(mm.kcSelector)
      [] mm.state = StateSelectNamespace -> GetInput(mm.nsSelector)
      [] mm.state = StateSelectDeployment -> GetInput(mm.depSelector)
      [] mm.state = StateSelectCommand -> GetInput(mm.cmdSelector)
      [] mm.state = StateSelectPod -> GetInput(mm.podSelector)
      [] mm.state = StateSelectContainer -> GetInput(mm.contSelector)
      [] mm.state = StateSelectAssetFolder -> GetInput(mm.assetSelector)
      [] mm.state = StateInputValue -> mm.valueInput.value
      [] OTHER -> <<>>

\* the cursor of the selector the state shows, 0 if it shows none
ActiveCursor(mm) ==
    CASE mm.state = StateSelectKubeConfig -> mm.kcSelector.cursor
      [] mm.state = StateSelectNamespace -> mm.nsSelector.cursor
      [] mm.state = StateSelectDeployment -> mm.depSelector.cursor
      [] mm.state = StateSelectCommand -> mm.cmdSelector.cursor
      [] mm.state = StateSelectPod -> mm.podSelector.cursor
      [] mm.state = StateSelectContainer -> mm.contSelector.cursor
      [] mm.state = StateSelectAssetFolder -> mm.assetSelector.cursor
      [] OTHER -> 0

\* inputEmpty of the "backspace" case
BackspaceInputEmpty(mm) ==
    CASE mm.state = StateSelectKubeConfig -> GetInput(mm.kcSelector) = <<>>
      [] mm.state = StateSelectNamespace -> GetInput(mm.nsSelector) = <<>>
      [] mm.state = StateSelectDeployment -> GetInput(mm.depSelector) = <<>>
      [] mm.state = StateSelectCommand -> GetInput(mm.cmdSelector) = <<>>
      [] mm.state = StateSelectPod -> GetInput(mm.podSelector) = <<>>
      [] mm.state = StateSelectContainer -> GetInput(mm.contSelector) = <<>>
      [] mm.state = StateInputValue -> mm.valueInput.value = <<>>
      [] OTHER -> TRUE

\* "Update the active selector", the tail of Update
UpdateActive(mm, st, key) ==
    LET m1 ==
          CASE mm.state = StateSelectKubeConfig ->
                 [mm EXCEPT !.kcSelector = FuzzyUpdate(mm.kcSelector, key)]
            [] mm.state = StateSelectNamespace ->
                 [mm EXCEPT !.nsSelector = FuzzyUpdate(mm.nsSelector, key)]
            [] mm.state = StateSelectDeployment ->
                 [mm EXCEPT !.depSelector = FuzzyUpdate(mm.depSelector, key)]
            [] mm.state = StateSelectCommand ->
                 [mm EXCEPT !.cmdSelector = FuzzyUpdate(mm.cmdSelector, key)]
            [] mm.state = StateSelectPod ->
                 [mm EXCEPT !.podSelector = FuzzyUpdate(mm.podSelector, key)]
            [] mm.state = StateSelectContainer ->
                 [mm EXCEPT !.contSelector = FuzzyUpdate(mm.contSelector, key)]
            [] mm.state = StateSelectAssetFolder ->
                 [mm EXCEPT !.assetSelector = FuzzyUpdate(mm.assetSelector, key)]
            [] mm.state = StateInputValue ->
                 [mm EXCEPT !.valueInput = TextUpdate(mm.valueInput, key)]
            [] OTHER -> mm
    IN  Out(m1, st, <<>>, FALSE)

\* the detour cancel of "esc" and "backspace": clear the flag, pop the stack
PopDetour(mm, flag) ==
    LET m1 == [mm EXCEPT ![flag] = FALSE]
        n == Len(mm.prevStates)
    IN  IF n > 0
        THEN [m1 EXCEPT !.state = mm.prevStates[n],
                        !.prevStates = SubSeq(mm.prevStates, 1, n - 1)]
        ELSE m1

\* "esc" and an unconsumed "backspace" outside the log viewer
BackOrPop(mm, st) ==
    IF mm.state = StateSelectKubeConfig /\ mm.showKubeConfigChange
    THEN Out(PopDetour(mm, "showKubeConfigChange"), st, <<>>, FALSE)
    ELSE IF mm.state = StateSelectNamespace /\ mm.showNamespaceChange
    THEN Out(PopDetour(mm, "showNamespaceChange"), st, <<>>, FALSE)
    ELSE goBack(mm, st)

\* m.cancelStream() under "if m.streaming && m.cancelStream != nil"
CancelIfStreaming(mm, st) ==
    IF mm.streaming /\ mm.cancelStream # 0
    THEN [m |-> [mm EXCEPT !.streaming = FALSE],
          st |-> [st EXCEPT ![mm.cancelStream].cancelled = TRUE]]
    ELSE [m |-> mm, st |-> st]

\* Update for a tea.KeyMsg while in StateViewLogs
ViewLogsKey(mm, st, key) ==
    LET k == KeyName(key)
        c == CancelIfStreaming(mm, st)
    IN  CASE k = "ctrl+c" -> Out(c.m, c.st, <<>>, TRUE)
          [] k \in {"esc", "q"} ->
               Out([c.m EXCEPT !.state = StateSelectCommand,
                               !.cmdSelector = Reset(c.m.cmdSelector)],
                   c.st, <<>>, FALSE)
          [] OTHER -> Out([mm EXCEPT !.logViewer = LvUpdate(mm.logViewer, key)],
                          st, <<>>, FALSE)

\* a namespace switch that forgets where it came from
SwitchNamespaceNoPush(mm, st) ==
    LET m1 == [mm EXCEPT !.showNamespaceChange = TRUE,
                         !.state = StateSelectNamespace,
                         !.nsSelector = Reset(mm.nsSelector)]
    IN  Out(m1, st, <<loadNamespaces(m1)>>, FALSE)

\* Update for "ctrl+n" outside namespace selection
SwitchNamespace(mm, st) ==
    LET m1 == [mm EXCEPT !.showNamespaceChange = TRUE,
                         !.prevStates = Append(mm.prevStates, mm.state),
                         !.state = StateSelectNamespace,
                         !.nsSelector = Reset(mm.nsSelector)]
    IN  Out(m1, st, <<loadNamespaces(m1)>>, FALSE)

\* Update for "ctrl+k" outside kubeconfig selection
SwitchKubeConfig(mm, st) ==
    LET m1 == [mm EXCEPT !.showKubeConfigChange = TRUE,
                         !.prevStates = Append(mm.prevStates, mm.state),
                         !.state = StateSelectKubeConfig,
                         !.kcSelector = Reset(mm.kcSelector)]
    IN  Out(m1, st, <<loadKubeConfigs(m1)>>, FALSE)

\* Update for a tea.KeyMsg
KeyUpdate(mm, st, key) ==
    LET k == KeyName(key)
    IN  IF mm.state = StateViewLogs THEN ViewLogsKey(mm, st, key)
        ELSE CASE k \in {"ctrl+c", "q"} -> Out(mm, st, <<>>, TRUE)
               [] k = "ctrl+n" /\ mm.state # StateSelectNamespace ->
                    SwitchNamespace(mm, st)
               [] k = "ctrl+k" /\ mm.state # StateSelectKubeConfig ->
                    SwitchKubeConfig(mm, st)
               [] k = "esc" -> BackOrPop(mm, st)
               [] k = "backspace" /\ BackspaceInputEmpty(mm) -> BackOrPop(mm, st)
               [] k \in {"enter", "tab"} -> handleEnter(mm, st)
               [] OTHER -> UpdateActive(mm, st, key)

(***************************************************************************)
(* Messages.  One record shape for every tea.Msg: the message type, its    *)
(* err ("nil" = Go nil), and the payload fields the type uses.             *)
(***************************************************************************)
Msg(type, err, items, text, logs, stream, line) ==
    [type |-> type, err |-> err, items |-> items, text |-> text, logs |-> logs,
     stream |-> stream, line |-> line]

ListMsg(type, err, items) == Msg(type, err, items, "", <<>>, 0, <<>>)

ResultMsg(type, err, text) == Msg(type, err, <<>>, text, <<>>, 0, <<>>)

\* a key press; which key it was is not kept
KeyMsg == Msg("KeyMsg", "nil", <<>>, "", <<>>, 0, <<>>)

\* a nil-pointer dereference inside the command's closure
PanicMsg == Msg("panic", "nil", <<>>, "", <<>>, 0, <<>>)

\* the lists the cluster can answer with
NamespaceList == <<"ns1", "ns2">>

DeploymentList(ns) ==
    CASE ns = "ns1" -> <<"web1">>
      [] ns = "ns2" -> <<"web2">>
      [] OTHER -> <<"web1", "web2">>

KubeConfigList == <<"+ Enter new kubeconfig path...", "/home/u/.kube/config">>

\* the n-th line of stream id, as characters
StreamLine(id, n) == <<"s", IF id = 1 THEN "1" ELSE IF id = 2 THEN "2" ELSE "3",
                       IF n = 0 THEN "a" ELSE IF n = 1 THEN "b" ELSE "c">>

\* the messages the command's closure can return
Outcomes(c, st) ==
    LET needsClient == c.kind \in {"loadNamespaces", "loadDeployments", "loadPods",
                                   "loadContainers", "loadAssetFolders",
                                   "loadPodsAndSelectFirst", "exec", "streamLogs"}
    IN  IF needsClient /\ c.client = "nil" THEN {PanicMsg}
        ELSE CASE c.kind = "loadNamespaces" ->
                    {ListMsg("NamespacesLoadedMsg", "list failed", <<>>),
                     ListMsg("NamespacesLoadedMsg", "nil", NamespaceList)}
               [] c.kind = "loadKubeConfigs" ->
                    {ListMsg("KubeConfigsLoadedMsg", "nil", KubeConfigList)}
               [] c.kind = "loadDeployments" ->
                    {ListMsg("DeploymentsLoadedMsg", "list failed", <<>>),
                     ListMsg("DeploymentsLoadedMsg", "nil", DeploymentList(c.ns))}
               [] c.kind = "loadPods" ->
                    {ListMsg("PodsLoadedMsg", "list failed", <<>>),
                     ListMsg("PodsLoadedMsg", "nil", <<"p1 (Running)">>)}
               [] c.kind = "loadContainers" ->
                    {ListMsg("ContainersLoadedMsg", "list failed", <<>>),
                     ListMsg("ContainersLoadedMsg", "nil", <<>>),
                     ListMsg("ContainersLoadedMsg", "nil", <<"c1">>),
                     ListMsg("ContainersLoadedMsg", "nil", <<"c1", "c2">>)}
               [] c.kind = "loadPodsAndSelectFirst" ->
                    {ListMsg("PodsLoadedMsg", "list failed", <<>>),
                     ListMsg("ContainersLoadedMsg", "list failed", <<>>),
                     ListMsg("ContainersLoadedMsg", "nil", <<>>),
                     ListMsg("ContainersLoadedMsg", "nil", <<"c1">>),
                     ListMsg("ContainersLoadedMsg", "nil", <<"c1", "c2">>)}
               [] c.kind = "loadAssetFolders" ->
                    {ListMsg("AssetFoldersLoadedMsg", "list failed", <<>>),
                     ListMsg("AssetFoldersLoadedMsg", "nil", <<"f1">>)}
               [] c.kind = "executeFastDeploy" ->
                    {ResultMsg("FastDeployCompleteMsg", "local path error", "")}
                    \cup (IF c.client = "nil" THEN {PanicMsg}
                          ELSE {ResultMsg("FastDeployCompleteMsg", "call failed", ""),
                                ResultMsg("FastDeployCompleteMsg", "nil", c.name)})
               [] c.kind = "newClient" ->
                    {ResultMsg("KubeConfigChangedMsg", "kubeconfig failed", ""),
                     ResultMsg("KubeConfigChangedMsg", "nil", c.name)}
               [] c.kind = "invalidInput" ->
                    {ResultMsg("CommandResultMsg", "invalid input", "")}
               [] c.kind = "handOff" -> {ResultMsg("ExecCompleteMsg", "nil", "")}
               [] c.kind = "exec" /\ c.name = "shell" ->
                    {ResultMsg("CommandResultMsg", "call failed", ""),
                     ResultMsg("ExecCompleteMsg", "nil", "")}
               [] c.kind = "exec" /\ c.name = "logs" ->
                    {ResultMsg("LogsLoadedMsg", "call failed", ""),
                     Msg("LogsLoadedMsg", "nil", <<>>, "", <<>>, 0, <<>>),
                     Msg("LogsLoadedMsg", "nil", <<>>, "", <<"a", "\n", "b">>, 0, <<>>)}
               [] c.kind = "exec" ->
                    {ResultMsg("CommandResultMsg", "call failed", ""),
                     ResultMsg("CommandResultMsg", "nil", c.name)}
               [] c.kind \in {"streamLogs", "readNextLine"} ->
                    {Msg("LogStreamEndMsg", "nil", <<>>, "", <<>>, c.stream, <<>>)}
                    \cup (IF st[c.stream].sent < MaxStreamLines
                          THEN {Msg("logStreamMsg", "nil", <<>>, "", <<>>, c.stream,
                                    StreamLine(c.stream, st[c.stream].sent))}
                          ELSE {})
               [] OTHER -> {}

\* the streams after the closure returned msg
StreamsAfter(st, msg) ==
    CASE msg.type = "logStreamMsg" -> [st EXCEPT ![msg.stream].sent = @ + 1]
      [] msg.type = "LogStreamEndMsg" -> [st EXCEPT ![msg.stream].ended = TRUE]
      [] OTHER -> st

\* what a failed pod listing of loadPodsAndSelectFirst / loadPods is attached to
PodsLoadedUpdate(mm, msg) ==
    IF msg.err # "nil"
    THEN [mm EXCEPT !.podSelector = SetError(mm.podSelector, msg.err)]
    ELSE [mm EXCEPT !.podSelector = SetItems(SetRecentItems(mm.podSelector, <<>>), msg.items)]

\* Update for every message that is not a key press or a resize
MsgUpdate(mm, st, msg) ==
    LET showErr == [mm EXCEPT !.err = msg.err, !.state = StateShowResult]
        t == msg.type
    IN  CASE t = "NamespacesLoadedMsg" ->
               Out(IF msg.err # "nil"
                   THEN [mm EXCEPT !.nsSelector = SetError(mm.nsSelector, msg.err)]
                   ELSE [mm EXCEPT !.nsSelector = SetItems(mm.nsSelector, msg.items)],
                   st, <<>>, FALSE)
          [] t = "KubeConfigsLoadedMsg" ->
               Out(IF msg.err # "nil"
                   THEN [mm EXCEPT !.kcSelector = SetError(mm.kcSelector, msg.err)]
                   ELSE [mm EXCEPT !.kcSelector =
                            SetItems(SetRecentItems(mm.kcSelector, <<>>), msg.items)],
                   st, <<>>, FALSE)
          [] t = "KubeConfigChangedMsg" ->
               IF msg.err # "nil" THEN Out(showErr, st, <<>>, FALSE)
               ELSE LET m1 == [mm EXCEPT !.k8sClient = "new",
                                         !.kubeconfig = msg.text,
                                         !.showKubeConfigChange = FALSE,
                                         !.namespace = "",
                                         !.deployment = "",
                                         !.state = StateSelectNamespace]
                    IN  Out(m1, st, <<loadNamespaces(m1)>>, FALSE)
          [] t = "DeploymentsLoadedMsg" ->
               Out(IF msg.err # "nil"
                   THEN [mm EXCEPT !.depSelector = SetError(mm.depSelector, msg.err)]
                   ELSE [mm EXCEPT !.depSelector =
                            SetItems(SetRecentItems(mm.depSelector, <<>>), msg.items)],
                   st, <<>>, FALSE)
          [] t = "PodsLoadedMsg" -> Out(PodsLoadedUpdate(mm, msg), st, <<>>, FALSE)
          [] t = "ContainersLoadedMsg" ->
               IF msg.err # "nil"
               THEN Out([mm EXCEPT !.contSelector = SetError(mm.contSelector, msg.err)],
                        st, <<>>, FALSE)
               ELSE LET m1 == [mm EXCEPT !.contSelector =
                                            SetItems(mm.contSelector, msg.items)]
                    IN  IF Len(msg.items) = 1
                        THEN proceedAfterContainer([m1 EXCEPT !.container = msg.items[1]],
                                                   st)
                        ELSE Out(m1, st, <<>>, FALSE)
          [] t \in {"CommandResultMsg", "FastDeployCompleteMsg"} ->
               Out(IF msg.err # "nil"
                   THEN [mm EXCEPT !.state = StateShowResult, !.err = msg.err]
                   ELSE [mm EXCEPT !.state = StateShowResult, !.result = msg.text],
                   st, <<>>, FALSE)
          [] t = "LogsLoadedMsg" ->
               IF msg.err # "nil" THEN Out(showErr, st, <<>>, FALSE)
               ELSE Out([mm EXCEPT !.logViewer =
                            LvFocus(SetLogs(LvSetSize(NewLogViewer, mm.width, mm.height),
                                            msg.logs)),
                                   !.state = StateViewLogs],
                        st, <<>>, FALSE)
          [] t = "logStreamMsg" ->
               Out([mm EXCEPT !.logViewer = AppendLog(mm.logViewer, msg.line)],
                   st, <<readNextLine(msg.stream)>>, FALSE)
          [] t = "LogStreamEndMsg" ->
               Out([mm EXCEPT !.streaming = FALSE,
                              !.logViewer = SetStreaming(mm.logViewer, FALSE),
                              !.err = IF msg.err # "nil" THEN msg.err ELSE mm.err],
                   st, <<>>, FALSE)
          [] t = "ExecCompleteMsg" ->
               IF msg.err # "nil" THEN Out(showErr, st, <<>>, FALSE)
               ELSE Out(mm, st, <<>>, TRUE)
          [] t = "AssetFoldersLoadedMsg" ->
               Out(IF msg.err # "nil"
                   THEN [mm EXCEPT !.assetSelector = SetError(mm.assetSelector, msg.err)]
                   ELSE [mm EXCEPT !.assetSelector = SetItems(mm.assetSelector, msg.items)],
                   st, <<>>, FALSE)
          [] OTHER -> Out(mm, st, <<>>, FALSE)

\* Update for tea.WindowSizeMsg
WindowSizeUpdate(mm, w, h) ==
    [mm EXCEPT !.width = w, !.height = h, !.logViewer = LvSetSize(mm.logViewer, w, h)]

\* what View shows in StateShowResult: the error if there is one, else the result
ResultDisplay(mm) ==
    IF mm.err # "nil" THEN <<"error", mm.err>> ELSE <<"result", mm.result>>

(***************************************************************************)
(* The wizard as a state machine.  m is the Model bubbletea holds, lastMsg *)
(* the message the last Update received, pending the bag of commands whose *)
(* closures have not returned yet, issued the number of commands issued so *)
(* far (a follow stream counts once), streams the follow streams started   *)
(* so far, viewerOf the execution m.logViewer was created for (stream i,   *)
(* 0 for a logs execution, -1 for the viewer of NewModel), quit how the    *)
(* program stands: "running", "quit" after tea.Quit,                       *)
(* "panic" after a nil-pointer dereference.                                *)
(***************************************************************************)
\* handlePostTUIAction of main.go on the final Model: the errors it can
\* return to the host ("nil" = none), "panic" for a call through a nil
\* client.  It is handed the client runInteractive created at start-up.
handlePostTUIAction(mm) ==
    LET takeover == IF mm.initialClientErr THEN {"panic"} ELSE {"nil", "call failed"}
        name == mm.command.Name
    IN  IF mm.command = NilCommand THEN {"nil"}
        ELSE IF name \in {"shell", "logs-follow"} THEN takeover
        ELSE IF name = "port-forward" /\ CountOf(mm.inputValue, ":") = 1 THEN takeover
        ELSE {"nil"}

NoMsg == Msg("none", "nil", <<>>, "", <<>>, 0, <<>>)

\* the client runInteractive of main.go created before the session and hands
\* to handlePostTUIAction
HostClient(mm) == IF mm.initialClientErr THEN "nil" ELSE "initial"

\* the call handlePostTUIAction makes on the final Model, "none" if it
\* returns without one
PostTUICall(mm) ==
    IF mm.command = NilCommand THEN "none"
    ELSE IF mm.command.Name = "shell" THEN "RunShell"
    ELSE IF mm.command.Name = "logs-follow" THEN "RunLogs"
    ELSE IF mm.command.Name = "port-forward" /\ CountOf(mm.inputValue, ":") = 1
    THEN "RunPortForward"
    ELSE "none"

\* Model.Init
ModelInit(mm) ==
    IF mm.k8sClient = "nil" THEN loadKubeConfigs(mm)
    ELSE IF mm.namespace = "" THEN loadNamespaces(mm)
    ELSE loadDeployments(mm)

\* the start-ups of runInteractive: (client, last namespace of the store)
StartUps == {<<"nil", "">>, <<"initial", "">>, <<"initial", "ns1">>}

\* the keys of a run that moves through the wizard: typing "e" puts set-env
\* on top of the actions
WizardKeys ==
    {<<"ctrl+c">>, <<"rune", "q">>, <<"ctrl+n">>, <<"ctrl+k">>, <<"esc">>,
     <<"backspace">>, <<"enter">>, <<"tab">>, <<"rune", "e">>}

\* the keys of a run that follows logs, leaves the viewer and comes back
FollowKeys == {<<"enter">>, <<"down">>, <<"esc">>}

\* the keys of a run that executes, changes the namespace and executes
\* again: typing "a" puts list-pods on top of the actions
RunKeys == {<<"enter">>, <<"ctrl+n">>, <<"rune", "a">>}

WindowSizes == {<<80, 24>>}

AddCmd(pend, cmd) == IF cmd = <<>> THEN pend ELSE pend (+) SetToBag({cmd[1]})

\* the commands issued once cmd is: reading a stream's next line is no new command
IssuedAfter(n, cmd) ==
    IF cmd = <<>> \/ cmd[1].kind = "readNextLine" THEN n ELSE n + 1

\* the execution the Model's viewer was created for, once Update has
\* handled msg: stream i when executeCommand started stream i, 0 when a logs
\* execution delivered its text, else as before
ViewerAfter(v, st, st1, msg) ==
    IF Len(st1) > Len(st) THEN Len(st1)
    ELSE IF msg.type = "LogsLoadedMsg" /\ msg.err = "nil" THEN 0
    ELSE v

\* the bounds of the exploration, on a handler's outcome
Bounded(out, pend, n, budget, maxInput, maxCursor) ==
    /\ n <= budget
    /\ Len(out.st) <= MaxStreams
    /\ BagCardinality(pend) <= MaxPending
    /\ Len(ActiveInput(out.m)) <= maxInput
    /\ ActiveCursor(out.m) <= maxCursor
    /\ Len(out.m.logViewer.searchInput.value) <= MaxInput

\* bubbletea starts the program on one of the start-ups
Start(startUps) ==
    /\ \E s \in startUps :
         LET mm == NewModel(s[1], s[2])
         IN  /\ m = mm
             /\ pending = SetToBag({ModelInit(mm)})
    /\ lastMsg = NoMsg
    /\ issued = 1
    /\ streams = <<>>
    /\ viewerOf = -1
    /\ recent = <<>>
    /\ goingBack = FALSE
    /\ quit = "running"
    /\ fl = NewFuzzyList
    /\ lv = NewLogViewer
    /\ appended = -1

\* the user presses one of keys
KeyIn(keys, budget, maxInput, maxCursor) ==
    /\ quit = "running"
    /\ \E key \in keys :
         /\ key[1] = "rune" => Len(ActiveInput(m)) < maxInput
         /\ \E out \in {KeyUpdate(m, streams, key)} :
              LET pend == AddCmd(pending, out.cmd)
                  n == IssuedAfter(issued, out.cmd)
              IN  /\ Bounded(out, pend, n, budget, maxInput, maxCursor)
                  /\ m' = out.m
                  /\ streams' = out.st
                  /\ pending' = pend
                  /\ issued' = n
                  /\ viewerOf' = ViewerAfter(viewerOf, streams, out.st, KeyMsg)
                  /\ lastMsg' = KeyMsg
                  /\ quit' = IF out.quit THEN "quit" ELSE "running"
    /\ UNCHANGED <<fl, lv, appended, recent, goingBack>>

\* a command's closure returns and bubbletea hands its message to Update
DeliverIn(budget, maxInput, maxCursor) ==
    /\ quit = "running"
    /\ \E c \in BagToSet(pending) : \E ms \in Outcomes(c, streams) :
         LET rest == pending (-) SetToBag({c})
         IN  IF ms.type = "panic"
             THEN /\ quit' = "panic"
                  /\ pending' = rest
                  /\ lastMsg' = ms
                  /\ UNCHANGED <<m, streams, issued, viewerOf>>
             ELSE \E out \in {MsgUpdate(m, StreamsAfter(streams, ms), ms)} :
                  LET pend == AddCmd(rest, out.cmd)
                      n == IssuedAfter(issued, out.cmd)
                  IN  /\ Bounded(out, pend, n, budget, maxInput, maxCursor)
                      /\ m' = out.m
                      /\ streams' = out.st
                      /\ pending' = pend
                      /\ issued' = n
                      /\ viewerOf' = ViewerAfter(viewerOf, streams, out.st, ms)
                      /\ lastMsg' = ms
                      /\ quit' = IF out.quit THEN "quit" ELSE "running"
    /\ UNCHANGED <<fl, lv, appended, recent, goingBack>>

\* the terminal reports its size
Resize ==
    /\ quit = "running"
    /\ \E s \in WindowSizes :
         /\ m' = WindowSizeUpdate(m, s[1], s[2])
         /\ lastMsg' = Msg("WindowSizeMsg", "nil", <<>>, "", <<>>, 0, <<>>)
    /\ m' # m
    /\ UNCHANGED <<fl, lv, appended, pending, issued, streams, viewerOf, quit, recent, goingBack>>

Init == Start(StartUps)

Key == KeyIn(WizardKeys, MaxIssued, MaxInput, MaxCursor)

Deliver == DeliverIn(MaxIssued, MaxInput, MaxCursor)

Next == Key \/ Deliver

\* the wizard under every start-up; the window keeps its size
Spec == Init /\ [][Next]_vars

InitFollow == Start({<<"initial", "ns1">>})

FollowKey == KeyIn(FollowKeys, MaxFollowIssued, MaxInput, MaxCursor)

FollowDeliver == DeliverIn(MaxFollowIssued, MaxInput, MaxCursor)

NextFollow == FollowKey \/ FollowDeliver \/ Resize

\* runs long enough to follow logs twice
SpecFollow == InitFollow /\ [][NextFollow]_vars

InitRun == Start({<<"initial", "ns1">>})

RunKey == KeyIn(RunKeys, MaxRunIssued, MaxInput, MaxCursor)

RunDeliver == DeliverIn(MaxRunIssued, MaxInput, MaxCursor)

NextRun == RunKey \/ RunDeliver

\* runs long enough to execute twice
SpecRun == InitRun /\ [][NextRun]_vars

\* the keys of a run that views logs and takes the two detours
DetourKeys == {<<"enter">>, <<"ctrl+n">>, <<"ctrl+k">>}

InitDetour == Start({<<"initial", "ns1">>})

DetourKey == KeyIn(DetourKeys, MaxDetourIssued, MaxInput, MaxCursor)

DetourDeliver == DeliverIn(MaxDetourIssued, MaxInput, MaxCursor)

NextDetour == DetourKey \/ DetourDeliver

\* runs that change namespace or kubeconfig from wherever the wizard is
SpecDetour == InitDetour /\ [][NextDetour]_vars

\* the keys of a run that picks any action of the catalog
CatalogKeys == {<<"enter">>, <<"tab">>, <<"down">>, <<"up">>}

InitCatalog == Start({<<"initial", "ns1">>})

CatalogKey == KeyIn(CatalogKeys, MaxCatalogIssued, MaxInput, MaxCatalogCursor)

CatalogDeliver == DeliverIn(MaxCatalogIssued, MaxInput, MaxCatalogCursor)

NextCatalog == CatalogKey \/ CatalogDeliver

\* runs that confirm one action, whichever it is
SpecCatalog == InitCatalog /\ [][NextCatalog]_vars

\* the keys of a run that walks the steps of an action forwards
StepKeys == {<<"enter">>, <<"down">>, <<"rune", "s">>}

InitSteps == Start({<<"initial", "ns1">>})

StepsKey == KeyIn(StepKeys, MaxStepsIssued, MaxInput, MaxStepsCursor)

StepsDeliver == DeliverIn(MaxStepsIssued, MaxInput, MaxStepsCursor)

NextSteps == StepsKey \/ StepsDeliver

\* runs that confirm an action, its pod, its container, its folder, its input
SpecSteps == InitSteps /\ [][NextSteps]_vars

\* the keys of a run that walks the steps of an action forwards and back
BackStepKeys == {<<"enter">>, <<"down">>, <<"esc">>}

InitBack == Start({<<"initial", "ns1">>})

BackKey == KeyIn(BackStepKeys, MaxBackIssued, MaxInput, MaxBackCursor)

BackDeliver == DeliverIn(MaxBackIssued, MaxInput, MaxBackCursor)

NextBack == BackKey \/ BackDeliver

\* runs that go forwards through an action's steps and back again
SpecBack == InitBack /\ [][NextBack]_vars

\* the keys of a run that changes the kubeconfig, picks an action and ends
HandOffKeys == {<<"enter">>, <<"down">>, <<"ctrl+k">>, <<"ctrl+c">>}

InitHandOff == Start({<<"nil", "">>, <<"initial", "ns1">>})

HandOffKey == KeyIn(HandOffKeys, MaxHandOffIssued, MaxInput, MaxHandOffCursor)

HandOffDeliver == DeliverIn(MaxHandOffIssued, MaxInput, MaxHandOffCursor)

NextHandOff == HandOffKey \/ HandOffDeliver

\* runs that end the session, by a quit key or by a hand-off to the host
SpecHandOff == InitHandOff /\ [][NextHandOff]_vars

\* the keys of a run that switches the namespace and confirms a deployment
NamespaceKeys == {<<"enter">>, <<"down">>, <<"ctrl+n">>}

InitNamespace == Start({<<"initial", "ns1">>})

NamespaceKey == KeyIn(NamespaceKeys, MaxNamespaceIssued, MaxInput, MaxCursor)

NamespaceDeliver == DeliverIn(MaxNamespaceIssued, MaxInput, MaxCursor)

NextNamespace == NamespaceKey \/ NamespaceDeliver

\* runs that switch from one namespace to the other
SpecNamespace == InitNamespace /\ [][NextNamespace]_vars

\* the keys of a run that executes an action, takes detours and cancels them
ExecKeys == {<<"enter">>, <<"ctrl+n">>, <<"ctrl+k">>, <<"esc">>}

InitExec == Start({<<"initial", "ns1">>})

ExecKey == KeyIn(ExecKeys, MaxExecIssued, MaxInput, MaxCursor)

ExecDeliver == DeliverIn(MaxExecIssued, MaxInput, MaxCursor)

NextExec == ExecKey \/ ExecDeliver

\* runs that execute an action; bubbletea runs every command to its end
SpecExec == InitExec /\ [][NextExec]_vars /\ WF_vars(ExecDeliver)

\* the steps that follow action selection
ReturnSteps == {StateSelectPod, StateSelectContainer, StateSelectAssetFolder,
                StateInputValue, StateShowResult}

\* the keys that walk forwards through an action's steps
ForwardKeys == {<<"enter">>, <<"down">>}

InitReturn == Start({<<"initial", "ns1">>})

\* the user walks forwards; the commands issued on the way are counted
ReturnForward ==
    /\ quit = "running"
    /\ ~goingBack
    /\ \E key \in ForwardKeys :
         \E out \in {KeyUpdate(m, streams, key)} :
              LET pend == AddCmd(pending, out.cmd)
                  n == IssuedAfter(issued, out.cmd)
              IN  /\ Bounded(out, pend, n, MaxReturnIssued, MaxInput, MaxReturnCursor)
                  /\ m' = out.m
                  /\ streams' = out.st
                  /\ pending' = pend
                  /\ issued' = n
                  /\ viewerOf' = ViewerAfter(viewerOf, streams, out.st, KeyMsg)
                  /\ lastMsg' = KeyMsg
                  /\ quit' = IF out.quit THEN "quit" ELSE "running"
    /\ UNCHANGED <<fl, lv, appended, recent, goingBack>>

\* the user presses esc on a step after action selection, and from then on
\* presses nothing else, and nothing while the wizard shows action selection;
\* the commands issued on the way back are not counted: these runs go on for
\* ever
ReturnBack ==
    /\ quit = "running"
    /\ m.state \in ReturnSteps \/ (goingBack /\ m.state # StateSelectCommand)
    /\ \E out \in {KeyUpdate(m, streams, <<"esc">>)} :
         LET pend == AddCmd(pending, out.cmd)
         IN  /\ Bounded(out, pend, issued, MaxReturnIssued, MaxInput, MaxReturnCursor)
             /\ m' = out.m
             /\ streams' = out.st
             /\ pending' = pend
             /\ viewerOf' = ViewerAfter(viewerOf, streams, out.st, KeyMsg)
             /\ lastMsg' = KeyMsg
             /\ quit' = IF out.quit THEN "quit" ELSE "running"
    /\ goingBack' = TRUE
    /\ UNCHANGED <<fl, lv, appended, recent, issued>>

\* the kinds of command the wizard issues
CmdKinds == {"loadNamespaces", "loadKubeConfigs", "loadDeployments", "loadPods",
             "loadContainers", "loadPodsAndSelectFirst", "loadAssetFolders",
             "executeFastDeploy", "newClient", "invalidInput", "handOff", "exec",
             "streamLogs", "readNextLine"}

\* the closure of a command of one kind returns and bubbletea hands its
\* message to Update
ReturnDeliverOf(kind) ==
    /\ quit = "running"
    /\ \E c \in BagToSet(pending) : \E ms \in Outcomes(c, streams) :
         LET rest == pending (-) SetToBag({c})
         IN  /\ c.kind = kind
             /\ IF ms.type = "panic"
                THEN /\ quit' = "panic"
                     /\ pending' = rest
                     /\ lastMsg' = ms
                     /\ UNCHANGED <<m, streams, issued, viewerOf>>
                ELSE \E out \in {MsgUpdate(m, StreamsAfter(streams, ms), ms)} :
                  LET pend == AddCmd(rest, out.cmd)
                      n == IF goingBack THEN issued ELSE IssuedAfter(issued, out.cmd)
                  IN  /\ Bounded(out, pend, n, MaxReturnIssued, MaxInput, MaxReturnCursor)
                      /\ m' = out.m
                      /\ streams' = out.st
                      /\ pending' = pend
                      /\ issued' = n
                      /\ viewerOf' = ViewerAfter(viewerOf, streams, out.st, ms)
                      /\ lastMsg' = ms
                      /\ quit' = IF out.quit THEN "quit" ELSE "running"
    /\ UNCHANGED <<fl, lv, appended, recent, goingBack>>

\* a command's closure returns
ReturnDeliver == \E kind \in CmdKinds : ReturnDeliverOf(kind)

NextReturn == ReturnForward \/ ReturnBack \/ ReturnDeliver

\* runs in which the user walks forwards and then only goes back: bubbletea
\* runs every command it was handed to its end, whatever its kind, and the
\* user keeps pressing esc
SpecReturn ==
    /\ InitReturn /\ [][NextReturn]_vars
    /\ \A kind \in CmdKinds : WF_vars(ReturnDeliverOf(kind))
    /\ WF_vars(ReturnBack)

\* the keys of a run that confirms free-form input: typing "s" puts scale
\* on top of the actions, "r" rollback
InputKeys == {<<"enter">>, <<"rune", "s">>, <<"rune", "r">>, <<"rune", "3">>}

InitInput == Start({<<"initial", "ns1">>})

InputKey == KeyIn(InputKeys, MaxInputIssued, MaxTypedInput, MaxCursor)

InputDeliver == DeliverIn(MaxInputIssued, MaxTypedInput, MaxCursor)

NextInput == InputKey \/ InputDeliver

\* runs that type and confirm free-form input
SpecInput == InitInput /\ [][NextInput]_vars


(***************************************************************************)
(* A FuzzyList on its own (src/pkg/ui/fuzzylist.go): fl is the list and    *)
(* lastMsg the operation applied last.                                     *)
(***************************************************************************)
Op(type, arg) == [type |-> type, arg |-> arg]

Twelve ==
    <<"i01", "i02", "i03", "i04", "i05", "i06", "i07", "i08", "i09", "i10",
      "i11", "i12">>

FlItemLists == {<<>>, <<"alpha", "beta", "gamma">>, Twelve}

FlRecentLists == {<<>>, <<"beta">>, <<"gamma", "zeta">>}

FlKeys ==
    {<<"up">>, <<"down">>, <<"pgup">>, <<"pgdown">>, <<"backspace">>,
     <<"rune", "a">>, <<"rune", "e">>, <<"rune", "1">>}

\* the wizard and the viewer stand still while a list is exercised alone
Idle ==
    /\ m = NewModel("nil", "")
    /\ pending = EmptyBag
    /\ issued = 0
    /\ streams = <<>>
    /\ viewerOf = -1
    /\ recent = <<>>
    /\ goingBack = FALSE
    /\ quit = "running"
    /\ appended = -1

InitFL ==
    /\ fl = NewFuzzyList
    /\ lv = NewLogViewer
    /\ lastMsg = Op("NewFuzzyList", <<>>)
    /\ Idle

FlSetItems ==
    /\ \E items \in FlItemLists :
         /\ fl' = SetItems(fl, items)
         /\ lastMsg' = Op("SetItems", items)
    /\ UNCHANGED <<lv, appended, m, pending, issued, streams, viewerOf, quit, recent, goingBack>>

FlSetRecentItems ==
    /\ \E items \in FlRecentLists :
         /\ fl' = SetRecentItems(fl, items)
         /\ lastMsg' = Op("SetRecentItems", items)
    /\ UNCHANGED <<lv, appended, m, pending, issued, streams, viewerOf, quit, recent, goingBack>>

FlSetError ==
    /\ fl' = SetError(fl, "list failed")
    /\ lastMsg' = Op("SetError", <<>>)
    /\ UNCHANGED <<lv, appended, m, pending, issued, streams, viewerOf, quit, recent, goingBack>>

FlReset ==
    /\ fl' = Reset(fl)
    /\ lastMsg' = Op("Reset", <<>>)
    /\ UNCHANGED <<lv, appended, m, pending, issued, streams, viewerOf, quit, recent, goingBack>>

FlKey ==
    /\ \E key \in FlKeys :
         /\ key[1] = "rune" => Len(fl.textInput.value) < MaxQuery
         /\ fl' = FuzzyUpdate(fl, key)
         /\ lastMsg' = Op("key", key)
    /\ UNCHANGED <<lv, appended, m, pending, issued, streams, viewerOf, quit, recent, goingBack>>

NextFL == FlSetItems \/ FlSetRecentItems \/ FlSetError \/ FlReset \/ FlKey

SpecFL == InitFL /\ [][NextFL]_vars

(***************************************************************************)
(* A LogViewer on its own (src/pkg/ui/logviewer.go): lv is the viewer,     *)
(* lastMsg the operation applied last, and appended the number of lines    *)
(* appended since SetStreaming(true) was applied to an empty viewer (-1    *)
(* when the viewer is not in such a run).                                  *)
(***************************************************************************)
LvLineSet == {<<"a", "b">>, <<"b">>, <<"B", "a">>}

LvLogs == {<<>>, <<"a", "b", "\n", "b">>, <<"b", "\n", "a", "\n", "a", "b">>}

LvKeys ==
    {<<"up">>, <<"down">>, <<"pgup">>, <<"pgdown">>, <<"home">>, <<"end">>,
     <<"tab">>, <<"ctrl+l">>, <<"backspace">>, <<"rune", "a">>, <<"rune", "b">>,
     <<"rune", "k">>, <<"rune", "j">>}

LvSizes == {<<80, 24>>}

InitLV ==
    /\ fl = NewFuzzyList
    /\ lv = NewLogViewer
    /\ lastMsg = Op("NewLogViewer", <<>>)
    /\ m = NewModel("nil", "")
    /\ pending = EmptyBag
    /\ issued = 0
    /\ streams = <<>>
    /\ viewerOf = -1
    /\ recent = <<>>
    /\ goingBack = FALSE
    /\ quit = "running"
    /\ appended = -1

LvDoSetLogs ==
    /\ \E logs \in LvLogs :
         /\ lv' = SetLogs(lv, logs)
         /\ lastMsg' = Op("SetLogs", logs)
    /\ appended' = -1
    /\ UNCHANGED <<fl, m, pending, issued, streams, viewerOf, quit, recent, goingBack>>

LvDoAppendLog ==
    /\ Len(lv.allLines) < MaxLines
    /\ \E line \in LvLineSet :
         /\ lv' = AppendLog(lv, line)
         /\ lastMsg' = Op("AppendLog", line)
    /\ appended' = IF appended >= 0 THEN appended + 1 ELSE appended
    /\ UNCHANGED <<fl, m, pending, issued, streams, viewerOf, quit, recent, goingBack>>

LvDoSetStreaming ==
    /\ \E b \in BOOLEAN :
         /\ lv' = SetStreaming(lv, b)
         /\ lastMsg' = Op("SetStreaming", b)
         /\ appended' = IF b /\ lv.allLines = <<>> THEN 0
                        ELSE IF b THEN appended ELSE -1
    /\ UNCHANGED <<fl, m, pending, issued, streams, viewerOf, quit, recent, goingBack>>

LvDoSetSize ==
    /\ \E s \in LvSizes :
         /\ lv' = LvSetSize(lv, s[1], s[2])
         /\ lastMsg' = Op("SetSize", s)
    /\ lv' # lv
    /\ UNCHANGED <<fl, appended, m, pending, issued, streams, viewerOf, quit, recent, goingBack>>

LvKey ==
    /\ \E key \in LvKeys :
         /\ (key[1] = "rune" /\ lv.searchInput.focus)
               => Len(lv.searchInput.value) < MaxLvQuery
         /\ lv' = LvUpdate(lv, key)
         /\ lastMsg' = Op("key", key)
    /\ UNCHANGED <<fl, appended, m, pending, issued, streams, viewerOf, quit, recent, goingBack>>

NextLV == LvDoSetLogs \/ LvDoAppendLog \/ LvDoSetStreaming \/ LvDoSetSize \/ LvKey

SpecLV == InitLV /\ [][NextLV]_vars

(***************************************************************************)
(* A recent-items list of the config store (src/pkg/config/config.go),     *)
(* recorded into by addToRecent.                                           *)
(***************************************************************************)
RecentValues == {"v1", "v2", "v3", "v4", "v5", "v6"}

DuplicateFree(list) == \A i, j \in 1..Len(list) : list[i] = list[j] => i = j

\* the lists a store can hold: duplicate-free, at most MaxRecentItems long
RecentLists ==
    {list \in UNION {[1..n -> RecentValues] : n \in 0..MaxRecentItems} :
        DuplicateFree(list)}

InitRecent ==
    /\ fl = NewFuzzyList
    /\ lv = NewLogViewer
    /\ lastMsg = Op("Load", <<>>)
    /\ m = NewModel("nil", "")
    /\ pending = EmptyBag
    /\ issued = 0
    /\ streams = <<>>
    /\ viewerOf = -1
    /\ quit = "running"
    /\ appended = -1
    /\ recent \in RecentLists
    /\ goingBack = FALSE

Record ==
    /\ \E item \in RecentValues :
         /\ recent' = addToRecent(recent, item)
         /\ lastMsg' = Op("addToRecent", item)
    /\ UNCHANGED <<fl, lv, appended, m, pending, issued, streams, viewerOf, quit,
                   goingBack>>

NextRecent == Record

SpecRecent == InitRecent /\ [][NextRecent]_vars

(***************************************************************************)
(* A LogViewer holding the three-line buffer "connect ok", "error:         *)
(* timeout", "retry ok", searched by typing e, r, o (and E); one more line *)
(* with capitals can be appended.                                          *)
(***************************************************************************)
ConnectOk == <<"c", "o", "n", "n", "e", "c", "t", " ", "o", "k">>

ErrorTimeout == <<"e", "r", "r", "o", "r", ":", " ", "t", "i", "m", "e", "o", "u", "t">>

RetryOk == <<"r", "e", "t", "r", "y", " ", "o", "k">>

ScenarioLogs == ConnectOk \o <<"\n">> \o ErrorTimeout \o <<"\n">> \o RetryOk

ScenarioLines == {<<"E", "R", "R", "O", "R">>}

ScenarioKeys ==
    {<<"up">>, <<"down">>, <<"tab">>, <<"ctrl+l">>, <<"backspace">>,
     <<"rune", "e">>, <<"rune", "r">>, <<"rune", "o">>, <<"rune", "E">>}

LvScenarioSetLogs ==
    /\ lv' = SetLogs(lv, ScenarioLogs)
    /\ lv' # lv
    /\ lastMsg' = Op("SetLogs", ScenarioLogs)
    /\ UNCHANGED <<fl, appended, m, pending, issued, streams, viewerOf, quit, recent, goingBack>>

LvScenarioAppendLog ==
    /\ Len(lv.allLines) < MaxScenarioLines
    /\ \E line \in ScenarioLines :
         /\ lv' = AppendLog(lv, line)
         /\ lastMsg' = Op("AppendLog", line)
    /\ UNCHANGED <<fl, appended, m, pending, issued, streams, viewerOf, quit, recent, goingBack>>

LvScenarioKey ==
    /\ \E key \in ScenarioKeys :
         /\ (key[1] = "rune" /\ lv.searchInput.focus)
               => Len(lv.searchInput.value) < MaxScenarioQuery
         /\ lv' = LvUpdate(lv, key)
         /\ lastMsg' = Op("key", key)
    /\ UNCHANGED <<fl, appended, m, pending, issued, streams, viewerOf, quit, recent, goingBack>>

NextLvScenario == LvScenarioSetLogs \/ LvScenarioAppendLog \/ LvScenarioKey

SpecLvScenario == InitLV /\ [][NextLvScenario]_vars

(***************************************************************************)
(* Properties of the FuzzyList.                                            *)
(***************************************************************************)
CursorInRange(f) ==
    IF totalItems(f) > 0 THEN 0 <= f.cursor /\ f.cursor < totalItems(f)
    ELSE f.cursor = 0

\* C1: across every operation of a FuzzyList (SetItems, SetRecentItems,
\* SetError, Reset, keys) the cursor stays within the filtered items, is 0
\* when there are none, and an operation whose new total is at or below the
\* old cursor leaves the cursor at 0.
C1_CursorWithinTotal ==
    [][/\ CursorInRange(fl)
       /\ CursorInRange(fl')
       /\ fl.cursor >= totalItems(fl') => fl'.cursor = 0]_vars

\* a query was typed that narrows three items to one while the cursor was
\* moved down: the cursor is back on the first item
C1_Witness ==
    /\ lastMsg = Op("key", <<"rune", "e">>)
    /\ fl.items = <<"alpha", "beta", "gamma">>
    /\ fl.recentItems = <<>>
    /\ totalItems(fl) = 1
    /\ fl.cursor = 0

\* C7: SetItems on a selector that holds an error leaves it without the
\* error and not loading.  (Refuted: SetItems never clears err.)
C7_SetItemsClearsError ==
    lastMsg.type = "SetItems" => (fl.err = "nil" /\ ~fl.loading)

\* what SetItems does do to a failed selector: not loading, query kept,
\* filtered view recomputed, error kept and still what View shows
C7_ErrorKept ==
    [][(lastMsg'.type = "SetItems" /\ fl.err # "nil") =>
          /\ ~fl'.loading
          /\ fl'.textInput.value = fl.textInput.value
          /\ fl' = filterItems(fl')
          /\ fl'.items = lastMsg'.arg
          /\ fl'.err = fl.err
          /\ FuzzyViewMode(fl') = "error"]_vars

\* items arrived on a selector that had failed
C7_Witness ==
    /\ lastMsg = Op("SetItems", <<"alpha", "beta", "gamma">>)
    /\ fl.err = "list failed"
    /\ Len(fl.filtered) = 3

StrsOf(matches) == {matches[i].Str : i \in 1..Len(matches)}

\* C15: after every filter pass, whatever the query, no string is both in
\* the recent section and in the all section.
C15_RecentNotInAll == StrsOf(fl.filteredRecent) \cap StrsOf(fl.filtered) = {}

\* a typed query matches a recent item that is also a candidate, and other
\* candidates
C15_Witness ==
    /\ fl.textInput.value = <<"a">>
    /\ fl.recentItems = <<"beta">>
    /\ fl.items = <<"alpha", "beta", "gamma">>
    /\ StrsOf(fl.filteredRecent) = {"beta"}
    /\ StrsOf(fl.filtered) = {"alpha", "gamma"}

(***************************************************************************)
(* Properties of the LogViewer.                                            *)
(***************************************************************************)
SelectionInRange(l) ==
    l.filteredLines # <<>> =>
        0 <= l.selectedIndex /\ l.selectedIndex < Len(l.filteredLines)

\* C2: across every operation of a LogViewer (SetLogs, AppendLog,
\* SetStreaming, SetSize, keys) the selected index stays within the filtered
\* lines when there are any, and an operation whose new filtered count is
\* at or below the old selected index leaves the selection at 0.
C2_SelectionWithinFiltered ==
    [][/\ SelectionInRange(lv)
       /\ SelectionInRange(lv')
       /\ lv.selectedIndex >= Len(lv'.filteredLines) => lv'.selectedIndex = 0]_vars

\* a query was typed that leaves two of three lines, after the selection
\* had been on another line
C2_Witness ==
    /\ lastMsg = Op("key", <<"rune", "a">>)
    /\ Len(lv.allLines) = 3
    /\ Len(lv.filteredLines) = 2
    /\ lv.selectedIndex = 0

\* the lines of l that contain the query, case-insensitively
MatchingLines(l) ==
    {i \in 1..Len(l.allLines) :
        Contains(ToLowerSeq(l.allLines[i]), ToLowerSeq(l.searchInput.value))}

Last(s) == s[Len(s)]

Front(s) == SubSeq(s, 1, Len(s) - 1)

ConfirmKeys == {<<"enter">>, <<"tab">>}

BackKeys == {<<"esc">>, <<"backspace">>}

Running == quit = "running"

\* the messages that can be delivered next
Deliverable == UNION {Outcomes(c, streams) : c \in BagToSet(pending)}

NamespaceDetour ==
    /\ Running
    /\ m.state = StateSelectNamespace
    /\ m.showNamespaceChange
    /\ m.prevStates # <<>>

KubeConfigDetour ==
    /\ Running
    /\ m.state = StateSelectKubeConfig
    /\ m.showKubeConfigChange
    /\ m.prevStates # <<>>

C4_NoStreamLeftRunning ==
    (m.state # StateViewLogs \/ quit # "running") =>
        \A i \in 1..Len(streams) : streams[i].cancelled \/ streams[i].ended

\* C5 as stated: when an execution's result message arrives, the wizard is
\* in result display and shows that execution's outcome: its text and no
\* error on success, its error on failure.  (Refuted.)
C5_ResultOfThisExecution ==
    lastMsg.type \in {"CommandResultMsg", "FastDeployCompleteMsg"} =>
        /\ m.state = StateShowResult
        /\ ResultDisplay(m) = IF lastMsg.err # "nil" THEN <<"error", lastMsg.err>>
                              ELSE <<"result", lastMsg.text>>

\* the selector the state shows
ActiveSelector(mm) ==
    CASE mm.state = StateSelectKubeConfig -> mm.kcSelector
      [] mm.state = StateSelectNamespace -> mm.nsSelector
      [] mm.state = StateSelectDeployment -> mm.depSelector
      [] mm.state = StateSelectCommand -> mm.cmdSelector
      [] mm.state = StateSelectPod -> mm.podSelector
      [] mm.state = StateSelectContainer -> mm.contSelector
      [] mm.state = StateSelectAssetFolder -> mm.assetSelector
      [] OTHER -> NewFuzzyList

ListMsgTypes ==
    {"NamespacesLoadedMsg", "DeploymentsLoadedMsg", "PodsLoadedMsg",
     "ContainersLoadedMsg", "AssetFoldersLoadedMsg"}

\* the states with a selector or a text input
InputStates ==
    {StateSelectKubeConfig, StateSelectNamespace, StateSelectDeployment,
     StateSelectCommand, StateSelectPod, StateSelectContainer,
     StateSelectAssetFolder, StateInputValue}

\* C6 as stated, for the one listing the wizard is waiting for (it is the
\* only command in flight and the selector of the current state is still
\* loading): when it fails, the wizard state is unchanged and the selector
\* of the current state shows the error.  (Refuted.)
C6_ErrorOnActiveSelector ==
    \A ms \in Deliverable :
        (/\ Running
         /\ BagCardinality(pending) = 1
         /\ m.state \in InputStates \ {StateInputValue}
         /\ ActiveSelector(m).loading
         /\ ms.type \in ListMsgTypes
         /\ ms.err # "nil") =>
            \E out \in {MsgUpdate(m, streams, ms)} :
                /\ out.m.state = m.state
                /\ FuzzyViewMode(ActiveSelector(out.m)) = "error"
                /\ ActiveSelector(out.m).err = ms.err

\* C8 as stated, its first half: esc or backspace on a non-empty query
\* never changes the wizard state.  (Refuted.)
C8_BackSuppressedByQuery ==
    \A key \in BackKeys :
        (Running /\ m.state \in InputStates /\ ActiveInput(m) # <<>>) =>
            \E out \in {KeyUpdate(m, streams, key)} : out.m.state = m.state

\* C9 as stated: a go-back trigger in action selection changes neither the
\* wizard state nor the back stack.  (Refuted.)
C9_BackFromCommandIsNoOp ==
    \A key \in BackKeys :
        (Running /\ m.state = StateSelectCommand /\ ActiveInput(m) = <<>>) =>
            \E out \in {KeyUpdate(m, streams, key)} :
                /\ out.m.state = m.state
                /\ out.m.prevStates = m.prevStates

\* C9 amended: a go-back trigger in action selection (esc, or backspace on
\* an empty query) moves the wizard to resource selection with the
\* selector's query cleared and a fresh deployments load, and leaves the
\* back stack unchanged.
C9_BackFromCommandToDeployment ==
    \A key \in BackKeys :
        (Running /\ m.state = StateSelectCommand
            /\ (key = <<"backspace">> => ActiveInput(m) = <<>>)) =>
            \E out \in {KeyUpdate(m, streams, key)} :
                /\ out.m.state = StateSelectDeployment
                /\ out.m.prevStates = m.prevStates
                /\ GetInput(out.m.depSelector) = <<>>
                /\ out.m.depSelector.cursor = 0
                /\ out.cmd = <<loadDeployments(out.m)>>
                /\ ~out.quit

\* the wizard went back from action selection: it is in resource selection,
\* the resource chosen before is still recorded and a load is on its way
C9_Witness ==
    /\ m.state = StateSelectDeployment
    /\ m.deployment = "web1"
    /\ lastMsg = KeyMsg
    /\ \E c \in BagToSet(pending) : c.kind = "loadDeployments"

\* C10: a go-back trigger in resource selection leaves the wizard state and
\* the back stack unchanged and issues no command.
C10_BackFromDeploymentIsNoOp ==
    \A key \in BackKeys :
        (Running /\ m.state = StateSelectDeployment) =>
            \E out \in {KeyUpdate(m, streams, key)} :
                /\ out.m.state = StateSelectDeployment
                /\ out.m.prevStates = m.prevStates
                /\ out.cmd = <<>>
                /\ ~out.quit
                /\ ActiveInput(m) = <<>> => out.m = m

\* resource selection with its list loaded, nothing in flight, after a key
C10_Witness ==
    /\ m.state = StateSelectDeployment
    /\ m.prevStates = <<>>
    /\ ~m.showNamespaceChange
    /\ ~m.showKubeConfigChange
    /\ totalItems(m.depSelector) > 0
    /\ pending = EmptyBag
    /\ lastMsg = KeyMsg

\* the commands in flight that read follow stream id
ReadsInFlight(id) ==
    {c \in BagToSet(pending) : c.kind \in {"streamLogs", "readNextLine"} /\ c.stream = id}

\* the first n lines of follow stream id
StreamPrefix(id, n) == [i \in 1..n |-> StreamLine(id, i - 1)]

\* C12: each follow stream has at most one read in flight, and none once
\* its end was read; in a run with one follow stream the buffer of the
\* viewer created for it holds exactly the lines read from the stream so
\* far, in stream order.
C12_OneReadAtATime ==
    /\ \A id \in 1..Len(streams) :
         /\ \A c \in ReadsInFlight(id) : CopiesIn(c, pending) = 1
         /\ Cardinality(ReadsInFlight(id)) <= 1
         /\ streams[id].ended => ReadsInFlight(id) = {}
    /\ (Len(streams) = 1 /\ viewerOf = 1) =>
         m.logViewer.allLines = StreamPrefix(1, streams[1].sent)

\* the second line of the only stream was appended and the next read is in
\* flight
C12_Witness ==
    /\ Len(streams) = 1
    /\ viewerOf = 1
    /\ streams[1].sent = 2
    /\ lastMsg.type = "logStreamMsg"
    /\ Len(m.logViewer.allLines) = 2
    /\ \E c \in ReadsInFlight(1) : c.kind = "readNextLine"

\* the follow stream a line was read from, 0 for a line of a logs execution
StreamOf(line) ==
    IF Len(line) = 3 /\ line[1] = "s"
    THEN (IF line[2] = "1" THEN 1 ELSE IF line[2] = "2" THEN 2 ELSE 3)
    ELSE 0

\* C13 as stated: the viewer created for an execution holds only lines that
\* execution produced.  (Refuted.)
C13_ViewerHoldsOwnLines ==
    \A i \in 1..Len(m.logViewer.allLines) :
        StreamOf(m.logViewer.allLines[i]) = Max(viewerOf, 0)

\* C14 as stated, its first half: when the session started without a usable
\* client and the user quit from kubeconfig selection with still none, the
\* program returns an error to the host.  (Refuted.)
C14_AbandonedStartupIsAnError ==
    (/\ quit = "quit"
     /\ m.initialClientErr
     /\ m.k8sClient = "nil"
     /\ m.state = StateSelectKubeConfig) =>
        "nil" \notin handlePostTUIAction(m)

CatalogNames == {AvailableCommands[i].Name : i \in 1..Len(AvailableCommands)}

\* C16: confirming an empty free-form input changes neither the wizard
\* state nor the back stack and returns no command; confirming a non-empty
\* input for an action of the catalog moves the wizard to Executing with the
\* typed text, unchanged, as the input of the model and of the command.
C16_ConfirmInput ==
    \A key \in ConfirmKeys :
        (Running /\ m.state = StateInputValue) =>
            \E out \in {KeyUpdate(m, streams, key)} :
                IF m.valueInput.value = <<>>
                THEN /\ out.m.state = StateInputValue
                     /\ out.m.prevStates = m.prevStates
                     /\ out.cmd = <<>>
                     /\ ~out.quit
                ELSE m.command.Name \in CatalogNames =>
                     /\ out.m.state = StateExecuting
                     /\ out.m.inputValue = m.valueInput.value
                     /\ Len(out.cmd) = 1
                     /\ out.cmd[1].input = m.valueInput.value
                     /\ out.cmd[1].name = m.command.Name

\* a two-character input was confirmed for scale: the wizard is executing
\* with it
C16_Witness ==
    /\ m.state = StateExecuting
    /\ m.command.Name = "scale"
    /\ m.inputValue = <<"3", "s">>
    /\ lastMsg = KeyMsg
    /\ \E c \in BagToSet(pending) : c.name = "scale" /\ c.input = <<"3", "s">>

\* C17: confirming a non-empty input that is not an integer for scale or
\* rollback returns the command that only reports the invalid input, not
\* one that calls the client; that command can deliver nothing but a
\* CommandResultMsg with the invalid-input error, and once it is delivered
\* the wizard is in result display holding that error.
C17_InvalidInteger ==
    /\ \A key \in ConfirmKeys :
         (/\ Running
          /\ m.state = StateInputValue
          /\ m.command.Name \in {"scale", "rollback"}
          /\ m.valueInput.value # <<>>
          /\ ~IsInteger(m.valueInput.value)) =>
             \E out \in {KeyUpdate(m, streams, key)} :
                 /\ out.cmd = <<invalidInput(out.m)>>
                 /\ out.cmd[1].kind # "exec"
                 /\ Outcomes(out.cmd[1], out.st) =
                        {ResultMsg("CommandResultMsg", "invalid input", "")}
    /\ (lastMsg.type = "CommandResultMsg" /\ lastMsg.err = "invalid input") =>
           /\ m.state = StateShowResult
           /\ ResultDisplay(m) = <<"error", "invalid input">>

\* "3s" was confirmed for rollback and its error arrived
C17_Witness ==
    /\ m.command.Name = "rollback"
    /\ m.inputValue = <<"3", "s">>
    /\ lastMsg = ResultMsg("CommandResultMsg", "invalid input", "")
    /\ m.state = StateShowResult
    /\ pending = EmptyBag

\* C18: in container selection for an action that needs a container, a
\* container listing with exactly one candidate records that container and
\* moves the wizard to the action's next step (asset folder selection for
\* fast-deploy, the input prompt for an action that needs input, execution
\* otherwise, which for logs-follow is the log viewer) without a key press; a listing with no candidate or with two
\* or more leaves the wizard in container selection with its container
\* unchanged and issues nothing.
C18_SingleContainerAdvances ==
    \A ms \in Deliverable :
        (/\ Running
         /\ m.state = StateSelectContainer
         /\ m.command.NeedsContainer
         /\ ms.type = "ContainersLoadedMsg"
         /\ ms.err = "nil") =>
            \E out \in {MsgUpdate(m, streams, ms)} :
                IF Len(ms.items) = 1
                THEN /\ out.m.container = ms.items[1]
                     /\ out.m.state =
                            IF m.command.Name = "fast-deploy"
                            THEN StateSelectAssetFolder
                            ELSE IF m.command.NeedsInput THEN StateInputValue
                            ELSE IF m.command.Name = "logs-follow" THEN StateViewLogs
                            ELSE StateExecuting
                     /\ ~out.quit
                ELSE /\ out.m.state = StateSelectContainer
                     /\ out.m.container = m.container
                     /\ out.m.contSelector.items = ms.items
                     /\ out.cmd = <<>>

\* the one container of the pod arrived while set-env waited in container
\* selection: the wizard holds it and prompts for the value
C18_Witness ==
    /\ lastMsg.type = "ContainersLoadedMsg"
    /\ lastMsg.items = <<"c1">>
    /\ m.command.Name = "set-env"
    /\ m.container = "c1"
    /\ m.state = StateInputValue

\* C19: in result display, enter or tab clears the held result and error,
\* moves the wizard to action selection with the action selector's query
\* empty, leaves the back stack alone and issues nothing.
C19_ConfirmResult ==
    \A key \in ConfirmKeys :
        (Running /\ m.state = StateShowResult) =>
            \E out \in {KeyUpdate(m, streams, key)} :
                /\ out.m.state = StateSelectCommand
                /\ out.m.result = ""
                /\ out.m.err = "nil"
                /\ GetInput(out.m.cmdSelector) = <<>>
                /\ out.m.prevStates = m.prevStates
                /\ out.cmd = <<>>
                /\ ~out.quit

\* list-pods, picked with the query "a", has run and its result was
\* confirmed: the wizard is back in action selection holding nothing
C19_Witness ==
    /\ m.state = StateSelectCommand
    /\ m.command.Name = "list-pods"
    /\ m.prevStates = <<>>
    /\ pending = EmptyBag
    /\ issued >= 2
    /\ lastMsg = KeyMsg
    /\ m.result = ""
    /\ m.err = "nil"
    /\ GetInput(m.cmdSelector) = <<>>

\* C20: outside ViewLogs and outside namespace selection, ctrl+n appends
\* the current state to the back stack, moves the wizard to namespace
\* selection with that selector's query empty and issues the namespace
\* load; ctrl+k does the same towards kubeconfig selection from every
\* state but ViewLogs and kubeconfig selection.  In ViewLogs neither key
\* changes the wizard state or the back stack, and nothing is issued.
C20_DetourTriggers ==
    Running =>
        \E n \in {KeyUpdate(m, streams, <<"ctrl+n">>)} :
        \E k \in {KeyUpdate(m, streams, <<"ctrl+k">>)} :
            /\ m.state \notin {StateViewLogs, StateSelectNamespace} =>
                   /\ n.m.state = StateSelectNamespace
                   /\ n.m.prevStates = Append(m.prevStates, m.state)
                   /\ GetInput(n.m.nsSelector) = <<>>
                   /\ n.cmd = <<loadNamespaces(n.m)>>
                   /\ ~n.quit
            /\ m.state \notin {StateViewLogs, StateSelectKubeConfig} =>
                   /\ k.m.state = StateSelectKubeConfig
                   /\ k.m.prevStates = Append(m.prevStates, m.state)
                   /\ GetInput(k.m.kcSelector) = <<>>
                   /\ k.cmd = <<loadKubeConfigs(k.m)>>
                   /\ ~k.quit
            /\ m.state = StateViewLogs =>
                   \A o \in {n, k} :
                       /\ o.m.state = StateViewLogs
                       /\ o.m.prevStates = m.prevStates
                       /\ o.cmd = <<>>
                       /\ ~o.quit

\* ctrl+k was pressed in namespace selection, itself entered by ctrl+n from
\* action selection: both states are on the back stack and the kubeconfig
\* load is in flight
C20_Witness ==
    /\ m.state = StateSelectKubeConfig
    /\ m.prevStates = <<StateSelectCommand, StateSelectNamespace>>
    /\ lastMsg = KeyMsg
    /\ GetInput(m.kcSelector) = <<>>
    /\ \E c \in BagToSet(pending) : c.kind = "loadKubeConfigs"

\* the log viewer is open: the states in which the two keys are the log
\* viewer's to handle are reached
C20_ViewLogsReached == m.state = StateViewLogs /\ Running

\* C21: the filtered lines of a LogViewer are always the lines of the
\* buffer, in buffer order, whose lower-cased text contains the lower-cased
\* query; with an empty query they are the whole buffer.  With the buffer
\* "connect ok", "error: timeout", "retry ok" and the query "error" they
\* are "error: timeout" alone and the selection is 0.
C21_FilteredLines ==
    /\ \E keep \in {{lv.allLines[i] : i \in MatchingLines(lv)}} :
           lv.filteredLines = SelectSeqBy(lv.allLines, keep)
    /\ lv.searchInput.value = <<>> => lv.filteredLines = lv.allLines
    /\ (/\ lv.allLines = <<ConnectOk, ErrorTimeout, RetryOk>>
        /\ lv.searchInput.value = <<"e", "r", "r", "o", "r">>) =>
           /\ lv.filteredLines = <<ErrorTimeout>>
           /\ lv.selectedIndex = 0

\* "error" was typed, its last character just now, into the viewer holding
\* the three lines
C21_Witness ==
    /\ lv.allLines = <<ConnectOk, ErrorTimeout, RetryOk>>
    /\ lv.searchInput.value = <<"e", "r", "r", "o", "r">>
    /\ lastMsg = Op("key", <<"rune", "r">>)
    /\ lv.filteredLines = <<ErrorTimeout>>

StrSeq(matches) == [i \in 1..Len(matches) |-> matches[i].Str]

\* the selector of the scenario: candidates alpha, beta, gamma, the recent
\* item beta and the query "a"
AlphaBetaGammaUnderA ==
    /\ fl.items = <<"alpha", "beta", "gamma">>
    /\ fl.recentItems = <<"beta">>
    /\ fl.textInput.value = <<"a">>

\* C22 as stated: under the query "a" the recent section of that selector
\* is empty and its all section is alpha, gamma.
C22_RecentSectionEmpty ==
    AlphaBetaGammaUnderA =>
        /\ fl.filteredRecent = <<>>
        /\ StrSeq(fl.filtered) = <<"alpha", "gamma">>

\* C22: under the query "a" the recent section of that selector is beta
\* ("beta" ends in an a, which the subsequence match finds at index 3) and
\* its all section is alpha, gamma, in that order.
C22_RecentSectionBeta ==
    AlphaBetaGammaUnderA =>
        /\ StrSeq(fl.filteredRecent) = <<"beta">>
        /\ fl.filteredRecent[1].MatchedIndexes = <<3>>
        /\ StrSeq(fl.filtered) = <<"alpha", "gamma">>

\* "a" was just typed into the selector holding alpha, beta, gamma with the
\* recent item beta
C22_Witness ==
    /\ AlphaBetaGammaUnderA
    /\ lastMsg = Op("key", <<"rune", "a">>)

\* the sections and the cursor of a list
SectionsAndCursor(f) == <<f.filteredRecent, f.filtered, f.cursor>>

\* C23: in every reachable state of a FuzzyList, filtering again with the
\* query, candidates and recent items it holds yields the same sections in
\* the same order and the same cursor as filtering once, and these are the
\* sections and cursor the list already shows once its candidates or its
\* recent items have been set.
C23_FilterIdempotent ==
    \E once \in {filterItems(fl)} :
        /\ SectionsAndCursor(filterItems(once)) = SectionsAndCursor(once)
        /\ lastMsg.type \in {"SetItems", "SetRecentItems", "Reset"} =>
               SectionsAndCursor(once) = SectionsAndCursor(fl)

\* SetRecentItems has just filtered a list that a typed query had filtered
\* before, with the cursor moved off the top
C23_Witness ==
    /\ lastMsg = Op("SetRecentItems", <<"beta">>)
    /\ fl.items = <<"alpha", "beta", "gamma">>
    /\ fl.textInput.value = <<"a">>
    /\ fl.cursor = 2

\* the selector steps of the wizard
SelectorStates ==
    {StateSelectKubeConfig, StateSelectNamespace, StateSelectDeployment,
     StateSelectCommand, StateSelectPod, StateSelectContainer,
     StateSelectAssetFolder}

\* printable characters that are no navigation keys
TypedChars == {"a", "e", "q", "s"}

\* C24: in every selector step, typing a printable character appends it to
\* the query of the active selector, which is filtered again; the session
\* goes on, in the same wizard state, and nothing is issued.
C24_TypingOnlyFilters ==
    \A c \in TypedChars :
        (Running /\ m.state \in SelectorStates) =>
            \E out \in {KeyUpdate(m, streams, <<"rune", c>>)} :
                /\ ~out.quit
                /\ out.m.state = m.state
                /\ out.cmd = <<>>
                /\ GetInput(ActiveSelector(out.m)) =
                       Append(GetInput(ActiveSelector(m)), c)
                /\ ActiveSelector(out.m) = filterItems(ActiveSelector(out.m))

\* what does hold: every typed character but "q" is appended to the active
\* selector's query and only filters; "q" ends the session with the query
\* untouched
C24_AllButQ ==
    \A c \in TypedChars :
        (Running /\ m.state \in SelectorStates) =>
            \E out \in {KeyUpdate(m, streams, <<"rune", c>>)} :
                IF c = "q"
                THEN out.quit /\ out.m = m
                ELSE /\ ~out.quit
                     /\ out.m.state = m.state
                     /\ out.cmd = <<>>
                     /\ GetInput(ActiveSelector(out.m)) =
                            Append(GetInput(ActiveSelector(m)), c)
                     /\ ActiveSelector(out.m) = filterItems(ActiveSelector(out.m))

\* the position of x in list, 0 if it is not in it
PositionIn(list, x) ==
    IF \E i \in 1..Len(list) : list[i] = x
    THEN CHOOSE i \in 1..Len(list) : list[i] = x
    ELSE 0

\* C25: every record operation on a duplicate-free list of at most 5
\* entries leaves a duplicate-free list of at most 5 entries with the
\* recorded value at index 0, followed by entries of the previous list in
\* their previous relative order, nothing but the previous last entry being
\* dropped; recording the value that is already first changes nothing.
C25_RecordKeepsRecentList ==
    [][lastMsg'.type = "addToRecent" =>
         /\ Len(recent) <= MaxRecentItems /\ DuplicateFree(recent)
         /\ Len(recent') <= MaxRecentItems /\ DuplicateFree(recent')
         /\ recent'[1] = lastMsg'.arg
         /\ \A i \in 2..Len(recent') : PositionIn(recent, recent'[i]) > 0
         /\ \A i, j \in 2..Len(recent') :
                i < j => PositionIn(recent, recent'[i]) < PositionIn(recent, recent'[j])
         /\ \A i \in 1..Len(recent) :
                PositionIn(recent', recent[i]) = 0 => i = MaxRecentItems
         /\ (recent # <<>> /\ recent[1] = lastMsg'.arg) => recent' = recent]_vars

\* a sixth value was recorded into a full list: it is first, the previous
\* first four follow and the previous last is gone
C25_Witness ==
    /\ lastMsg = Op("addToRecent", "v6")
    /\ recent = <<"v6", "v1", "v2", "v3", "v4">>

\* C26: confirming (enter or tab) the selected entry of the action catalog
\* in action selection makes it the wizard's action and moves the wizard
\* to pod selection, issuing the pod load, if the entry needs a pod; else
\* to container selection, issuing one load, if it needs a container; else
\* to the input prompt showing the entry's prompt, issuing nothing, if it
\* needs input; else to Executing, issuing the execution.
C26_AfterAction ==
    \A key \in ConfirmKeys : \A i \in 1..Len(AvailableCommands) :
        (/\ Running
         /\ m.state = StateSelectCommand
         /\ GetSelected(m.cmdSelector) = CommandItem(AvailableCommands[i])) =>
            \E out \in {KeyUpdate(m, streams, key)} :
            \E c \in {AvailableCommands[i]} :
                /\ out.m.command = c
                /\ ~out.quit
                /\ IF c.NeedsPod
                   THEN /\ out.m.state = StateSelectPod
                        /\ out.cmd = <<loadPods(out.m)>>
                   ELSE IF c.NeedsContainer
                   THEN /\ out.m.state = StateSelectContainer
                        /\ out.cmd = <<loadPodsAndSelectFirst(out.m)>>
                   ELSE IF c.NeedsInput
                   THEN /\ out.m.state = StateInputValue
                        /\ out.m.valueInput.placeholder = c.InputPrompt
                        /\ out.m.valueInput.value = <<>>
                        /\ out.cmd = <<>>
                   ELSE /\ out.m.state = StateExecuting
                        /\ Len(out.cmd) = 1
                        /\ out.cmd[1].name = c.Name

\* the last entry of the catalog, which needs nothing, was confirmed and is
\* executing
C26_Witness ==
    /\ m.state = StateExecuting
    /\ m.command.Name = "describe"
    /\ m.cmdSelector.cursor = 13
    /\ lastMsg = KeyMsg

\* the state confirming a pod leads to, and the state choosing a container
\* leads to, when executing logs-follow leads to followState
AfterPodAndContainer(followState) ==
    \A key \in ConfirmKeys :
        \E out \in {KeyUpdate(m, streams, key)} :
        \E started \in {IF m.command.Name = "logs-follow" THEN followState
                        ELSE StateExecuting} :
            /\ (/\ Running
                /\ m.state = StateSelectPod
                /\ m.command.NeedsPod
                /\ GetSelected(m.podSelector) # "") =>
                   /\ out.m.pod = GetSelected(m.podSelector)
                   /\ out.m.state =
                          IF m.command.NeedsContainer THEN StateSelectContainer
                          ELSE IF m.command.NeedsInput THEN StateInputValue
                          ELSE started
            /\ (/\ Running
                /\ m.state = StateSelectContainer
                /\ m.command.NeedsContainer
                /\ GetSelected(m.contSelector) # "") =>
                   /\ out.m.container = GetSelected(m.contSelector)
                   /\ out.m.state =
                          IF m.command.Name = "fast-deploy" THEN StateSelectAssetFolder
                          ELSE IF m.command.NeedsInput THEN StateInputValue
                          ELSE started
                   /\ m.command.Name = "fast-deploy" =>
                          out.cmd = <<loadAssetFolders(out.m)>>

\* for fast-deploy, asset-folder selection is entered with a container
\* chosen, the input prompt from asset-folder selection only, by the key
\* that selects a folder, and Executing from the input prompt only
FastDeployOrder ==
    m'.command.Name = "fast-deploy" =>
        /\ (m'.state = StateSelectAssetFolder /\ m.state # StateSelectAssetFolder) =>
               m'.container # ""
        /\ (m'.state = StateInputValue /\ m.state # StateInputValue) =>
               /\ m.state = StateSelectAssetFolder
               /\ lastMsg' = KeyMsg
               /\ m'.assetFolder = GetSelected(m.assetSelector)
               /\ m'.assetFolder # ""
        /\ (m'.state = StateExecuting /\ m.state # StateExecuting) =>
               m.state = StateInputValue

\* C27 as stated: confirming a pod leads to container selection, else the
\* input prompt, else Executing; choosing a container leads to asset-folder
\* selection with the folder load for fast-deploy, else the input prompt,
\* else Executing.
C27_ExecutingAfterContainer == AfterPodAndContainer(StateExecuting)

\* C27: the same, except that for logs-follow, which needs no input, the
\* step after the container is the log viewer (ViewLogs), streaming, and not
\* Executing; and for fast-deploy the input is prompted only by selecting a
\* folder in the asset-folder selection entered from the container choice,
\* and execution starts only from that prompt.
C27_StepsAfterPodAndContainer ==
    /\ []AfterPodAndContainer(StateViewLogs)
    /\ [][FastDeployOrder]_vars

\* fast-deploy went through its folder and its input and is executing
C27_Witness ==
    /\ m.command.Name = "fast-deploy"
    /\ m.state = StateExecuting
    /\ m.assetFolder # ""
    /\ m.inputValue # <<>>

\* logs-follow opened the log viewer straight from the container choice
C27_FollowWitness ==
    /\ m.command.Name = "logs-follow"
    /\ m.state = StateViewLogs
    /\ lastMsg = KeyMsg
    /\ m.container = "c1"

\* the step the predecessor map names for the state and action of mm
PredecessorOf(mm) ==
    CASE mm.state = StateInputValue ->
           IF mm.command.Name = "fast-deploy" THEN StateSelectAssetFolder
           ELSE IF mm.command.NeedsContainer THEN StateSelectContainer
           ELSE IF mm.command.NeedsPod THEN StateSelectPod
           ELSE StateSelectCommand
      [] mm.state = StateSelectAssetFolder -> StateSelectContainer
      [] mm.state = StateSelectContainer ->
           IF mm.command.NeedsPod THEN StateSelectPod ELSE StateSelectCommand
      [] mm.state \in {StateSelectPod, StateShowResult} -> StateSelectCommand
      [] OTHER -> mm.state

\* the steps after action selection, and Executing
StepStates ==
    {StateSelectPod, StateSelectContainer, StateSelectAssetFolder,
     StateInputValue, StateShowResult, StateExecuting}

\* C28: in a step after action selection, a go-back trigger (esc, or
\* backspace on an empty input) moves the wizard to the step the
\* predecessor map names for its state and action, which is a step the
\* action requires or action selection; in Executing it changes nothing
\* and issues nothing.
C28_PredecessorMap ==
    \A key \in BackKeys :
        (/\ Running
         /\ m.state \in StepStates
         /\ key = <<"backspace">> => ActiveInput(m) = <<>>) =>
            \E out \in {KeyUpdate(m, streams, key)} :
                /\ out.m.state = PredecessorOf(m)
                /\ ~out.quit
                /\ out.m.command = m.command
                /\ out.m.state = StateSelectPod => m.command.NeedsPod
                /\ out.m.state = StateSelectContainer => m.command.NeedsContainer
                /\ out.m.state = StateSelectAssetFolder => m.command.Name = "fast-deploy"
                /\ m.state = StateExecuting => out.m = m /\ out.cmd = <<>>

\* update-image, which needs a container and no pod, went back from its
\* input prompt: the wizard is in container selection, loading containers
C28_Witness ==
    /\ m.command.Name = "update-image"
    /\ m.state = StateSelectContainer
    /\ lastMsg = KeyMsg
    /\ m.container # ""
    /\ \E c \in BagToSet(pending) : c.kind = "loadContainers"

\* C29: once the user only goes back from a step after action selection, the
\* wizard eventually shows action selection, unless the program ends first
C29_ReturnsToActionSelection ==
    goingBack ~> (m.state = StateSelectCommand \/ ~Running)

\* the rows View draws: scrollOffset up to scrollOffset + maxVisible - 1
InWindow(f, cursor) ==
    f.scrollOffset <= cursor /\ cursor < f.scrollOffset + f.maxVisible

\* C30: whenever the filtered list is not empty the cursor is on a row of the
\* visible window, and the window's top moves only on a step that leaves the
\* cursor outside the window shown before.  (Refuted: filterItems sets the
\* top to 0 and keeps a cursor that is still in range, and pgup always puts
\* the top on the cursor.)
C30_CursorInWindow ==
    /\ [](totalItems(fl) > 0 => InWindow(fl, fl.cursor))
    /\ [][fl'.scrollOffset # fl.scrollOffset => ~InWindow(fl, fl'.cursor)]_vars

\* the first half of C30 alone
C30_CursorVisible == totalItems(fl) > 0 => InWindow(fl, fl.cursor)

\* the second half of C30 alone
C30_TopMovesOnlyToFollow ==
    [][fl'.scrollOffset # fl.scrollOffset => ~InWindow(fl, fl'.cursor)]_vars

\* the candidates were set again while the cursor was on the eleventh of
\* twelve rows: the window shows rows 0 to 9
C30_Witness ==
    /\ lastMsg = Op("SetItems", Twelve)
    /\ fl.textInput.value = <<>>
    /\ fl.cursor = 10
    /\ fl.scrollOffset = 0
    /\ totalItems(fl) = 12

RECURSIVE Downs(_, _)
\* the selector after k presses of down
Downs(f, k) == IF k = 0 THEN f ELSE Downs(FuzzyUpdate(f, <<"down">>), k - 1)

\* the rows of a selector in cursor order when the recent section comes first
RecentThenAll(f) == StrSeq(f.filteredRecent) \o StrSeq(f.filtered)

\* C31: for every reachable selector, whatever its query and cursor, and
\* every non-empty candidate list, SetItems followed by Reset leaves an
\* empty query, cursor 0 and scroll offset 0; the selection is the first
\* recent item if there is one, else the first candidate of the all
\* section; and moving the cursor down walks the recent section first and
\* the all section after it.
C31_SetItemsThenReset ==
    \A items \in FlItemLists \ {<<>>} :
        \E r \in {Reset(SetItems(fl, items))} :
            /\ r.textInput.value = <<>>
            /\ r.cursor = 0
            /\ r.scrollOffset = 0
            /\ StrSeq(r.filteredRecent) = fl.recentItems
            /\ GetSelected(r) = IF fl.recentItems # <<>> THEN fl.recentItems[1]
                                ELSE items[1]
            /\ \A k \in 0..(totalItems(r) - 1) :
                 GetSelected(Downs(r, k)) = RecentThenAll(r)[k + 1]

\* Reset acted on a selector of three candidates and one recent item: the
\* selection is the recent item, on top
C31_Witness ==
    /\ lastMsg = Op("Reset", <<>>)
    /\ fl.items = <<"alpha", "beta", "gamma">>
    /\ fl.recentItems = <<"beta">>
    /\ fl.cursor = 0
    /\ GetSelected(fl) = "beta"
    /\ RecentThenAll(fl) = <<"beta", "alpha", "gamma">>

\* C32 as stated: when the session has ended and the host makes a hand-off
\* call, it makes it on the client the wizard held at the end.  (Refuted:
\* the host keeps the client it created before the session.)
C32_HandOffOnWizardClient ==
    (quit = "quit" /\ PostTUICall(m) # "none") => HostClient(m) = m.k8sClient

\* the session started without a client, the kubeconfig was changed and the
\* shell's hand-off ended the session
C32_Witness ==
    /\ quit = "quit"
    /\ lastMsg.type = "ExecCompleteMsg"
    /\ PostTUICall(m) = "RunShell"
    /\ m.k8sClient = "new"
    /\ HostClient(m) = "nil"

\* the session started with a client, the kubeconfig was changed and the
\* session ended with a hand-off action chosen
C32_ChangedClient ==
    ~(/\ quit = "quit"
      /\ PostTUICall(m) # "none"
      /\ m.k8sClient = "new"
      /\ HostClient(m) = "initial")

\* C33 as stated: when a quit key ended the session, the host makes no
\* hand-off call.  (Refuted: handlePostTUIAction looks only at the action
\* the Model still holds.)
C33_QuitKeyNoHandOff ==
    (quit = "quit" /\ lastMsg = KeyMsg) => PostTUICall(m) = "none"

\* ctrl+c ended the session in pod selection after shell was chosen: the
\* host calls RunShell with no pod
C33_Witness ==
    /\ quit = "quit"
    /\ lastMsg = KeyMsg
    /\ m.state = StateSelectPod
    /\ m.pod = ""
    /\ PostTUICall(m) = "RunShell"

\* the commands whose closure calls the cluster through the client
RemoteKinds == {"loadNamespaces", "loadDeployments", "loadPods", "loadContainers",
                "loadAssetFolders", "loadPodsAndSelectFirst", "exec", "streamLogs",
                "executeFastDeploy"}

\* C34 as stated: no command in flight that lists or acts on the cluster was
\* issued by a Model without a client.  (Refuted: ctrl+n issues
\* loadNamespaces whatever the client is.)
C34_NoRemoteCallWithoutClient ==
    \A c \in BagToSet(pending) : c.kind \in RemoteKinds => c.client # "nil"

\* the session started without a client and ctrl+n was pressed in kubeconfig
\* selection: a namespace listing is in flight on the nil client
C34_Witness ==
    /\ Running
    /\ m.initialClientErr
    /\ m.k8sClient = "nil"
    /\ m.state = StateSelectNamespace
    /\ lastMsg = KeyMsg
    /\ \E c \in BagToSet(pending) : c.kind = "loadNamespaces" /\ c.client = "nil"

\* action selection and the steps after it that belong to a catalog action
ActionSteps ==
    {StateSelectCommand, StateSelectPod, StateSelectContainer,
     StateSelectAssetFolder, StateExecuting}

InActionStep(mm) ==
    \/ mm.state \in ActionSteps
    \/ mm.state = StateInputValue /\ mm.command.Name \in CatalogNames

\* C35 as stated: in action selection and in every later step a namespace
\* and a deployment are selected.  (Refuted: confirming the result display
\* of a failed kubeconfig change and going back from the kubeconfig path
\* entry both enter action selection whatever was selected.)
C35_NamespaceAndDeploymentChosen ==
    (Running /\ InActionStep(m)) => (m.namespace # "" /\ m.deployment # "")

\* the session started without a client, the change to a typed kubeconfig
\* path failed and its result display was confirmed: action selection with
\* nothing selected
C35_Witness ==
    /\ Running
    /\ m.state = StateSelectCommand
    /\ m.initialClientErr
    /\ m.k8sClient = "nil"
    /\ m.namespace = ""
    /\ m.deployment = ""
    /\ m.command = SetKubeConfigCommand
    /\ m.inputValue # <<>>
    /\ pending = EmptyBag
    /\ lastMsg = KeyMsg

\* the kubeconfig path entry was left with go-back: action selection with
\* nothing selected
C35_PathEntryLeft ==
    ~(/\ Running
      /\ m.state = StateSelectCommand
      /\ m.command = SetKubeConfigCommand
      /\ m.inputValue = <<>>
      /\ m.deployment = ""
      /\ lastMsg = KeyMsg)

\* C36 as stated: whenever enter in deployment selection confirms a
\* deployment, the deployment is one of the namespace the Model holds.
\* (Refuted: the selector keeps the previous listing until the next one
\* arrives, and takes any listing that arrives.)
C36_DeploymentOfCurrentNamespace ==
    (Running /\ m.state = StateSelectDeployment) =>
        \E out \in {KeyUpdate(m, streams, <<"enter">>)} :
            out.m.state = StateSelectCommand =>
                out.m.deployment \in Range(DeploymentList(out.m.namespace))

\* web1 of ns1 was confirmed after the switch to ns2, while the listing of
\* ns2 was in flight
C36_Witness ==
    /\ Running
    /\ lastMsg = KeyMsg
    /\ m.state = StateSelectCommand
    /\ m.namespace = "ns2"
    /\ m.deployment = "web1"
    /\ \E c \in BagToSet(pending) : c.kind = "loadDeployments" /\ c.ns = "ns2"

\* the namespace is ns2, no listing is in flight and the last message, a
\* listing that succeeded, left web1 of ns1 selected: the listing of ns1
\* arrived after the listing of ns2
C36_OlderListingLast ==
    ~(/\ Running
      /\ m.state = StateSelectDeployment
      /\ m.namespace = "ns2"
      /\ pending = EmptyBag
      /\ lastMsg.type = "DeploymentsLoadedMsg"
      /\ lastMsg.err = "nil"
      /\ GetSelected(m.depSelector) = "web1")

\* C37 as stated: a containers-loaded message that can be delivered while
\* the wizard is not in container selection leaves the wizard state as it
\* is and returns no command.  (Refuted: the handler never looks at the
\* state.)
C37_LateContainersIgnored ==
    (Running /\ m.state # StateSelectContainer) =>
        \A ms \in Deliverable :
            ms.type = "ContainersLoadedMsg" =>
                \E out \in {MsgUpdate(m, StreamsAfter(streams, ms), ms)} :
                    /\ out.m.state = m.state
                    /\ out.cmd = <<>>

\* the user went back to pod selection while the container listing was in
\* flight; it arrived with one container and the action was executed
C37_Witness ==
    /\ Running
    /\ lastMsg.type = "ContainersLoadedMsg"
    /\ lastMsg.err = "nil"
    /\ m.command.Name = "logs"
    /\ m.state = StateExecuting
    /\ \E c \in BagToSet(pending) : c.kind = "loadPods"
    /\ \E c \in BagToSet(pending) : c.kind = "exec"

\* the commands whose message ends an execution
CompletionKinds == {"exec", "invalidInput", "handOff", "executeFastDeploy"}

\* C38 as stated: in Executing a command that ends the execution is in
\* flight, and Executing is always left in the end.  (Refuted: a container
\* listing that arrives in the kubeconfig path entry calls executeCommand,
\* which has no case for set-kubeconfig.)
C38_ExecutingCompletes ==
    /\ [](Running /\ m.state = StateExecuting =>
            \E c \in BagToSet(pending) : c.kind \in CompletionKinds)
    /\ ((Running /\ m.state = StateExecuting) ~>
            (~Running \/ m.state \in {StateShowResult, StateViewLogs}))

\* the first half of C38 alone
C38_CompletionOutstanding ==
    (Running /\ m.state = StateExecuting) =>
        \E c \in BagToSet(pending) : c.kind \in CompletionKinds

\* the second half of C38 alone
C38_ExecutingLeft ==
    (Running /\ m.state = StateExecuting) ~>
        (~Running \/ m.state \in {StateShowResult, StateViewLogs})

\* the container listing of logs arrived in the kubeconfig path entry, a
\* detour taken from container selection: Executing with nothing in flight
C38_Witness ==
    /\ Running
    /\ m.state = StateExecuting
    /\ m.command = SetKubeConfigCommand
    /\ lastMsg.type = "ContainersLoadedMsg"
    /\ m.prevStates = <<StateSelectContainer>>
    /\ pending = EmptyBag

\* the follow stream of the current execution: the last one started, for
\* which the viewer on screen was created; 0 if there is none
CurrentStream ==
    IF m.state = StateViewLogs /\ viewerOf >= 1 /\ viewerOf = Len(streams)
    THEN viewerOf ELSE 0

\* C39 as stated: while the follow stream of the current execution has
\* neither ended nor been cancelled, the Model's streaming flag and the
\* viewer's streaming mode are on.  (Refuted: LogStreamEndMsg names no
\* stream, and the end of an earlier stream switches both off.)
C39_StreamingWhileCurrentStreamLives ==
    (/\ Running
     /\ CurrentStream > 0
     /\ ~streams[CurrentStream].cancelled
     /\ ~streams[CurrentStream].ended) =>
        (m.streaming /\ m.logViewer.streaming)

\* the end of the first, cancelled stream arrived while the second stream
\* was being followed: both flags are off and the second stream is live
C39_Witness ==
    /\ Running
    /\ Len(streams) = 2
    /\ CurrentStream = 2
    /\ lastMsg.type = "LogStreamEndMsg"
    /\ lastMsg.stream = 1
    /\ streams[1].cancelled
    /\ ~streams[2].cancelled
    /\ ~streams[2].ended
    /\ ~m.streaming
    /\ ~m.logViewer.streaming

\* esc then left the viewer and the second stream was not cancelled
C39_ExitLeavesStreamRunning ==
    (/\ Running
     /\ CurrentStream = 2
     /\ ~streams[2].cancelled
     /\ ~streams[2].ended) =>
        \E out \in {KeyUpdate(m, streams, <<"esc">>)} : out.st[2].cancelled

\* ---------------------------------------------------------------------------
\* scale: the replica count from the typed text to the client call
\* ---------------------------------------------------------------------------

\* An int of Go (64 bit) is held as a sign and a magnitude hi * 2^16 + lo,
\* an int32 as an integer.
Word == 65536

HalfWord == 32768

DigitValue(c) ==
    CHOOSE d \in 0..9 : <<"0", "1", "2", "3", "4", "5", "6", "7", "8", "9">>[d + 1] = c

RECURSIVE Magnitude(_)
Magnitude(body) ==
    IF body = <<>> THEN [hi |-> 0, lo |-> 0]
    ELSE LET p == Magnitude(SubSeq(body, 1, Len(body) - 1))
             l == p.lo * 10 + DigitValue(body[Len(body)])
         IN  [hi |-> (p.hi * 10) + (l \div Word), lo |-> l % Word]

\* strconv.Atoi of a text IsInteger accepts
Atoi(v) ==
    LET body == IF v[1] \in {"+", "-"} THEN Tail(v) ELSE v
        mag == Magnitude(body)
    IN  [neg |-> v[1] = "-" /\ mag # [hi |-> 0, lo |-> 0], hi |-> mag.hi, lo |-> mag.lo]

\* the conversion int32(replicas): the low 32 bits, read as a signed number
Int32(n) ==
    LET h == n.hi % Word
    IN  IF ~n.neg
        THEN IF h >= HalfWord THEN (h - Word) * Word + n.lo ELSE h * Word + n.lo
        ELSE IF h < HalfWord \/ (h = HalfWord /\ n.lo = 0)
             THEN (-h) * Word - n.lo
             ELSE (Word - h - 1) * Word + (Word - n.lo)

\* an int32 passed where an int is read
Widen(i) ==
    IF i >= 0 THEN [neg |-> FALSE, hi |-> i \div Word, lo |-> i % Word]
    ELSE LET a == -(i + 1)
             l == (a % Word) + 1
         IN  [neg |-> TRUE, hi |-> (a \div Word) + (l \div Word), lo |-> l % Word]

RECURSIVE FormatMagnitude(_)
FormatMagnitude(p) ==
    LET t == (p.hi % 10) * Word + p.lo
        q == [hi |-> p.hi \div 10, lo |-> t \div 10]
        d == <<"0", "1", "2", "3", "4", "5", "6", "7", "8", "9">>[(t % 10) + 1]
    IN  IF q = [hi |-> 0, lo |-> 0] THEN <<d>>
        ELSE Append(FormatMagnitude(q), d)

\* the verb %d of fmt.Sprintf
FormatInt(n) ==
    IF n.neg THEN <<"-">> \o FormatMagnitude(n) ELSE FormatMagnitude(n)

\* executeCommand, case "scale": the command it returns, run to its message;
\* replicas is what ScaleDeployment receives, reported the number in the text
scaleCommand(mm) ==
    IF ~IsInteger(mm.inputValue)
    THEN [call |-> "none", replicas |-> 0, err |-> "invalid replica count",
          reported |-> mm.inputValue]
    ELSE LET replicas == Atoi(mm.inputValue)
         IN  [call |-> "ScaleDeployment", replicas |-> Int32(replicas), err |-> "nil",
              reported |-> FormatInt(replicas)]

ScaleChars == {"-", "+", "0", "3", "x"}

MaxScaleLen == 3

\* counts at and beyond the ends of the int32 range
LargeCounts ==
    { <<"2", "1", "4", "7", "4", "8", "3", "6", "4", "7">>,
      <<"2", "1", "4", "7", "4", "8", "3", "6", "4", "8">>,
      <<"4", "2", "9", "4", "9", "6", "7", "2", "9", "6">>,
      <<"4", "2", "9", "4", "9", "6", "7", "2", "9", "7">>,
      <<"4", "2", "9", "4", "9", "6", "7", "2", "9", "9">>,
      <<"-", "2", "1", "4", "7", "4", "8", "3", "6", "4", "8">>,
      <<"-", "2", "1", "4", "7", "4", "8", "3", "6", "4", "9">>,
      <<"-", "4", "2", "9", "4", "9", "6", "7", "2", "9", "7">>,
      <<"9", "9", "9", "9", "9", "9", "9", "9", "9", "9", "9">> }

ScaleInputs ==
    LargeCounts \cup UNION {[1..n -> ScaleChars] : n \in 0..MaxScaleLen}

ScaleModel(v) ==
    [NewModel("initial", "ns1") EXCEPT
        !.state = StateInputValue,
        !.command = CHOOSE c \in Range(AvailableCommands) : c.Name = "scale",
        !.inputValue = v]

InitScale ==
    /\ fl = NewFuzzyList
    /\ lv = NewLogViewer
    /\ lastMsg = Op("InputValue", <<>>)
    /\ \E v \in ScaleInputs : m = ScaleModel(v)
    /\ pending = EmptyBag
    /\ issued = 0
    /\ streams = <<>>
    /\ viewerOf = -1
    /\ quit = "running"
    /\ appended = -1
    /\ recent = <<>>
    /\ goingBack = FALSE

ScaleExecute ==
    /\ m.state = StateInputValue
    /\ lastMsg' = Op("CommandResultMsg", scaleCommand(m))
    /\ m' = [m EXCEPT !.state = StateShowResult]
    /\ UNCHANGED <<fl, lv, appended, pending, issued, streams, viewerOf, quit, recent,
                   goingBack>>

NextScale == ScaleExecute

SpecScale == InitScale /\ [][NextScale]_vars

ScaleDone ==
    /\ m.state = StateShowResult
    /\ lastMsg.type = "CommandResultMsg"
    /\ lastMsg.arg.call = "ScaleDeployment"

\* C40: for every text accepted as an integer, the replica count the client
\* receives is the integer typed, and it is the number the result message
\* reports, also outside the int32 range.
C40_ReplicasAsTyped ==
    ScaleDone =>
        /\ Widen(lastMsg.arg.replicas) = Atoi(m.inputValue)
        /\ FormatInt(Widen(lastMsg.arg.replicas)) = lastMsg.arg.reported

\* a count beyond the int32 range was accepted and sent
C40_Witness ==
    /\ ScaleDone
    /\ m.inputValue = <<"4", "2", "9", "4", "9", "6", "7", "2", "9", "7">>
    /\ lastMsg.arg.replicas = 1
    /\ lastMsg.arg.reported = m.inputValue

\* inside the int32 range the count sent is the count typed and reported
C40_InRangeAsTyped ==
    (ScaleDone /\ Atoi(m.inputValue).hi < HalfWord) =>
        /\ Widen(lastMsg.arg.replicas) = Atoi(m.inputValue)
        /\ FormatInt(Widen(lastMsg.arg.replicas)) = lastMsg.arg.reported

=============================================================================
